---- MODULE Spec2Model ----
(***************************************************************************)
(* Corblivar: the multi-layer sequence store (CorblivarCore), the          *)
(* snapshot / best-solution handlers, the decoder of one layer             *)
(* (CorblivarDie::placeCurrentBlock) and the layout operators              *)
(* (LayoutOperations), as a state machine driven by an annealing driver.   *)
(*                                                                         *)
(* Conventions.  Tuple indices are 0-based as in the source; At(s, i)      *)
(* reads index i of a std::vector modelled as a 1-based sequence.  A       *)
(* std::stack is a sequence whose last element is the top.  Coordinates    *)
(* are fixed-point integers standing for the doubles of Rect.              *)
(***************************************************************************)
EXTENDS Integers, Sequences, FiniteSets, TLC

(***************************************************************************)
(* Bounds of the model                                                     *)
(***************************************************************************)
\* number of placeable blocks handed to the core
NumBlocks == 3
\* the driver's budget under Spec: calls after the random initialisation,
\* and fresh operator applications among them
MaxSteps == 3
MaxOps == 2
\* the driver's budget under SpecSnapshot
SnapshotSteps == 3
SnapshotOps == 1
\* the driver's budget under SpecBest
BestSteps == 4
BestOps == 1
\* the driver's budget under SpecSequences
SequenceSteps == 3
SequenceOps == 1
\* under SpecDecode: the largest junction count of a tuple, and the decode
\* passes made after the first one
MaxJuncts == 1
DecodeResets == 1
\* under SpecPacking: the calls of performPacking
PackingCalls == 1
\* calls of performRandomLayoutOp that the driver keeps track of
GuidedCalls == 1
\* under SpecCompaction: the number of blocks on the packed die
CompactedBlocks == 4

(***************************************************************************)
(* Program constants                                                       *)
(***************************************************************************)
OP_SWAP_BLOCKS == 1
OP_MOVE_TUPLE == 2
OP_SWITCH_INSERTION_DIR == 3
OP_SWITCH_TUPLE_JUNCTS == 4
OP_ROTATE_BLOCK__SHAPE_BLOCK == 5
OP_SHAPE_BLOCK__STRETCH_HORIZONTAL == 10
OP_SHAPE_BLOCK__STRETCH_VERTICAL == 11
OP_SHAPE_BLOCK__SHRINK_HORIZONTAL == 12
OP_SHAPE_BLOCK__SHRINK_VERTICAL == 13
OP_SHAPE_BLOCK__RANDOM_AR == 14

HORIZONTAL == "HORIZONTAL"
VERTICAL == "VERTICAL"
Direction == {HORIZONTAL, VERTICAL}

\* Block::AlignmentStatus
UNDEF == "UNDEF"
SUCCESS == "SUCCESS"
FAIL_HOR_TOO_LEFT == "FAIL_HOR_TOO_LEFT"
FAIL_HOR_TOO_RIGHT == "FAIL_HOR_TOO_RIGHT"
FAIL_VERT_TOO_LOW == "FAIL_VERT_TOO_LOW"
FAIL_VERT_TOO_HIGH == "FAIL_VERT_TOO_HIGH"
AlignmentStatus == {UNDEF, SUCCESS, FAIL_HOR_TOO_LEFT, FAIL_HOR_TOO_RIGHT,
                    FAIL_VERT_TOO_LOW, FAIL_VERT_TOO_HIGH}

(***************************************************************************)
(* Inputs: the layers and the block registry                               *)
(***************************************************************************)
\* parameters.layers layers, with ids 0 .. layers - 1
Dies == {0, 1}
Layers == Cardinality(Dies)
Blocks == 1 .. NumBlocks

\* declared dimensions of the registry's blocks, by identity
BlockWidth(b) == IF b % 3 = 0 THEN 1 ELSE 2
BlockHeight(b) == IF b % 3 = 0 THEN 3 ELSE b % 3
\* soft blocks are reshapable within their aspect-ratio range
BlockSoft(b) == b % 3 = 2
\* aspect-ratio range AR.min .. AR.max of a block, as fractions <<num, den>>
BlockARmin(b) == <<1, 4>>
BlockARmax(b) == <<4, 1>>
\* blocks of STRICT alignment requests are not rotatable
BlockRotatable(b) == b % 3 # 0
\* large macros
BlockFloorplacement(b) == b % 3 = 0
BlockPowerDensity(b) == b % 3

\* the dimensions <<width, height>> of the blocks handed to the decoder
DecodeShapes == {<<10, 4>>, <<5, 4>>, <<5, 8>>}

\* the dimensions and the lower-left coordinates of the blocks handed to
\* the packing
PackShapes == {<<2, 2>>, <<4, 2>>, <<2, 4>>}
PackCoords == {0, 3}
\* the dimensions and the lower-left coordinates of the blocks of a layout
\* without overlaps handed to the packing
CompactionShapes == {<<1, 2>>, <<3, 2>>}
CompactionXs == 0 .. 3
CompactionYs == 0 .. 2

\* the settings of LayoutOperations::parameters that the runs are made with
ParameterSets ==
  {[power_aware_block_handling |-> on, floorplacement |-> on,
    enhanced_soft_block_shaping |-> on, enhanced_hard_block_rotation |-> on,
    opt_alignment |-> FALSE, layers |-> Layers] : on \in BOOLEAN}

(***************************************************************************)
(* Rect                                                                    *)
(***************************************************************************)
Rect(llx, lly, w, h, area) ==
  [llx |-> llx, lly |-> lly, urx |-> llx + w, ury |-> lly + h,
   w |-> w, h |-> h, area |-> area]

\* Rect's default construction: all fields zero
ZeroRect == [llx |-> 0, lly |-> 0, urx |-> 0, ury |-> 0, w |-> 0, h |-> 0, area |-> 0]

Min(a, b) == IF a <= b THEN a ELSE b

rectsIntersectVertical(a, b) == a.lly < b.ury /\ b.lly < a.ury
rectsIntersectHorizontal(a, b) == a.llx < b.urx /\ b.llx < a.urx
rectsIntersect(a, b) == rectsIntersectVertical(a, b) /\ rectsIntersectHorizontal(a, b)

rectA_leftOf_rectB(a, b, considerVerticalIntersect) ==
  LET leftOf == a.urx <= b.llx
  IN  (leftOf /\ rectsIntersectVertical(a, b)) \/ (leftOf /\ ~considerVerticalIntersect)

rectA_below_rectB(a, b, considerHorizontalIntersect) ==
  LET below == a.ury <= b.lly
  IN  (below /\ rectsIntersectHorizontal(a, b)) \/ (below /\ ~considerHorizontalIntersect)

(***************************************************************************)
(* std::vector helpers (0-based indices)                                   *)
(***************************************************************************)
At(s, i) == s[i + 1]
\* vector::insert(begin() + i, e)
InsertAt(s, i, e) == SubSeq(s, 1, i) \o <<e>> \o SubSeq(s, i + 1, Len(s))
\* vector::erase(begin() + i)
EraseAt(s, i) == SubSeq(s, 1, i) \o SubSeq(s, i + 2, Len(s))
\* s[i] = e
SetAt(s, i, e) == [s EXCEPT ![i + 1] = e]
Reverse(s) == [k \in 1 .. Len(s) |-> s[Len(s) + 1 - k]]
Range(s) == {s[k] : k \in 1 .. Len(s)}

\* CorblivarDataStruct: three index-aligned lists
EmptyCBL == [S |-> <<>>, L |-> <<>>, T |-> <<>>]
\* CBL.empty() / CBL.size() look at the block list S
CBLempty(cbl) == cbl.S = <<>>
CBLsize(cbl) == Len(cbl.S)

VARIABLES
  CBL,          \* dies[d].CBL
  CBLbackup,    \* dies[d].CBLbackup
  CBLbest,      \* dies[d].CBLbest
  bb,           \* Block::bb
  bb_backup,    \* Block::bb_backup
  bb_best,      \* Block::bb_best
  layer,        \* Block::layer
  placed,       \* Block::placed
  Hi,           \* dies[d].Hi, horizontal stack
  Vi,           \* dies[d].Vi, vertical stack
  pi,           \* dies[d].pi, progress pointer
  done,         \* dies[d].done
  p,            \* CorblivarCore::p, the current die
  last_op,      \* LayoutOperations::last_op and last_op_die1 .. last_op_juncts
  parameters,   \* LayoutOperations::parameters
  phase,        \* "constructed" until initCorblivarRandomly ran
  budget,       \* the calls and fresh operators the driver still makes
  hist,         \* the last two driver calls, each with the state it started from
  alignments,   \* CorblivarCore::alignments, the alignment requests
  alignment,    \* Block::alignment, the alignment status
  last_call     \* the arguments and the guided selection of the last call of
                \* performRandomLayoutOp, where the driver keeps track of them

vars == <<CBL, CBLbackup, CBLbest, bb, bb_backup, bb_best, layer, placed,
          Hi, Vi, pi, done, p, last_op, parameters, phase, budget, hist,
          alignments, alignment, last_call>>

\* what the driver observes of a layout: sequences, rectangles, layer fields
Obs == [CBL |-> CBL, bb |-> bb, layer |-> layer]

(***************************************************************************)
(* CorblivarCore: abstract layout-modification operations.  Each takes     *)
(* the sequences of all dies (cbl) and, where it writes Block::layer, the  *)
(* layer fields (lay), and yields their new values.                        *)
(***************************************************************************)
\* faulty variant of swapBlocks: the directions and junction counts are
\* exchanged along with the blocks
swapBlocks_wholeTuples(cbl, lay, die1, die2, tuple1, tuple2) ==
  LET t1 == [S |-> At(cbl[die1].S, tuple1), L |-> At(cbl[die1].L, tuple1),
             T |-> At(cbl[die1].T, tuple1)]
      t2 == [S |-> At(cbl[die2].S, tuple2), L |-> At(cbl[die2].L, tuple2),
             T |-> At(cbl[die2].T, tuple2)]
      lay1 == IF die1 # die2 THEN [lay EXCEPT ![t1.S] = die2] ELSE lay
      lay2 == IF die1 # die2 THEN [lay1 EXCEPT ![t2.S] = die1] ELSE lay1
      c1 == [cbl EXCEPT ![die1] = [S |-> SetAt(@.S, tuple1, t2.S),
                                   L |-> SetAt(@.L, tuple1, t2.L),
                                   T |-> SetAt(@.T, tuple1, t2.T)]]
      c2 == [c1 EXCEPT ![die2] = [S |-> SetAt(@.S, tuple2, t1.S),
                                  L |-> SetAt(@.L, tuple2, t1.L),
                                  T |-> SetAt(@.T, tuple2, t1.T)]]
  IN  [CBL |-> c2, layer |-> lay2]

\* faulty variant of swapBlocks: the layer fields are written after the
\* swap, through the exchanged entries
swapBlocks_layersAfterSwap(cbl, lay, die1, die2, tuple1, tuple2) ==
  LET b1 == At(cbl[die1].S, tuple1)
      b2 == At(cbl[die2].S, tuple2)
      c1 == [cbl EXCEPT ![die1].S = SetAt(@, tuple1, b2)]
      c2 == [c1 EXCEPT ![die2].S = SetAt(@, tuple2, b1)]
      lay1 == IF die1 # die2 THEN [lay EXCEPT ![b2] = die2] ELSE lay
      lay2 == IF die1 # die2 THEN [lay1 EXCEPT ![b1] = die1] ELSE lay1
  IN  [CBL |-> c2, layer |-> lay2]

\* faulty variant of swapBlocks: only the first block's layer is updated
swapBlocks_firstLayerOnly(cbl, lay, die1, die2, tuple1, tuple2) ==
  LET b1 == At(cbl[die1].S, tuple1)
      b2 == At(cbl[die2].S, tuple2)
      lay1 == IF die1 # die2 THEN [lay EXCEPT ![b1] = die2] ELSE lay
      c1 == [cbl EXCEPT ![die1].S = SetAt(@, tuple1, b2)]
      c2 == [c1 EXCEPT ![die2].S = SetAt(@, tuple2, b1)]
  IN  [CBL |-> c2, layer |-> lay1]


swapBlocks(cbl, lay, die1, die2, tuple1, tuple2) ==
  LET b1 == At(cbl[die1].S, tuple1)
      b2 == At(cbl[die2].S, tuple2)
      \* pre-update layer assignments if swapping across dies
      lay1 == IF die1 # die2 THEN [lay EXCEPT ![b1] = die2] ELSE lay
      lay2 == IF die1 # die2 THEN [lay1 EXCEPT ![b2] = die1] ELSE lay1
      \* std::swap of the two entries of the block lists S
      c1 == [cbl EXCEPT ![die1].S = SetAt(@, tuple1, b2)]
      c2 == [c1 EXCEPT ![die2].S = SetAt(@, tuple2, b1)]
  IN  [CBL |-> c2, layer |-> lay2]

\* one list of a die, tuple1 moved within the list: insert a copy at offset
\* tuple2, then erase the source, whose offset is shifted if tuple2 comes first
moveWithinList(s, tuple1, tuple2) ==
  LET ins == InsertAt(s, tuple2, At(s, tuple1))
  IN  IF tuple1 > tuple2 THEN EraseAt(ins, tuple1 + 1) ELSE EraseAt(ins, tuple1)

\* faulty variant of moveTuples: across dies the source entry of the
\* junctions list is not erased
moveTuples_junctionsNotErased(cbl, lay, die1, die2, tuple1, tuple2) ==
  IF die1 = die2
  THEN [CBL |-> [cbl EXCEPT ![die1] =
                   [S |-> moveWithinList(@.S, tuple1, tuple2),
                    L |-> moveWithinList(@.L, tuple1, tuple2),
                    T |-> moveWithinList(@.T, tuple1, tuple2)]],
        layer |-> lay]
  ELSE LET src == cbl[die1]
           dst == cbl[die2]
           c1 == [cbl EXCEPT ![die2] =
                    [S |-> InsertAt(dst.S, tuple2, At(src.S, tuple1)),
                     L |-> InsertAt(dst.L, tuple2, At(src.L, tuple1)),
                     T |-> InsertAt(dst.T, tuple2, At(src.T, tuple1))]]
           c2 == [c1 EXCEPT ![die1] =
                    [S |-> EraseAt(src.S, tuple1),
                     L |-> EraseAt(src.L, tuple1),
                     T |-> src.T]]
       IN  [CBL |-> c2, layer |-> [lay EXCEPT ![At(src.S, tuple1)] = die2]]

\* faulty variant of moveTuples: the layer of a block moved across dies is
\* not updated
moveTuples_layerKept(cbl, lay, die1, die2, tuple1, tuple2) ==
  IF die1 = die2
  THEN [CBL |-> [cbl EXCEPT ![die1] =
                   [S |-> moveWithinList(@.S, tuple1, tuple2),
                    L |-> moveWithinList(@.L, tuple1, tuple2),
                    T |-> moveWithinList(@.T, tuple1, tuple2)]],
        layer |-> lay]
  ELSE LET src == cbl[die1]
           dst == cbl[die2]
           c1 == [cbl EXCEPT ![die2] =
                    [S |-> InsertAt(dst.S, tuple2, At(src.S, tuple1)),
                     L |-> InsertAt(dst.L, tuple2, At(src.L, tuple1)),
                     T |-> InsertAt(dst.T, tuple2, At(src.T, tuple1))]]
           c2 == [c1 EXCEPT ![die1] =
                    [S |-> EraseAt(src.S, tuple1),
                     L |-> EraseAt(src.L, tuple1),
                     T |-> EraseAt(src.T, tuple1)]]
       IN  [CBL |-> c2, layer |-> lay]


moveTuples(cbl, lay, die1, die2, tuple1, tuple2) ==
  IF die1 = die2
  THEN [CBL |-> [cbl EXCEPT ![die1] =
                   [S |-> moveWithinList(@.S, tuple1, tuple2),
                    L |-> moveWithinList(@.L, tuple1, tuple2),
                    T |-> moveWithinList(@.T, tuple1, tuple2)]],
        layer |-> lay]
  ELSE LET src == cbl[die1]
           dst == cbl[die2]
           c1 == [cbl EXCEPT ![die2] =
                    [S |-> InsertAt(dst.S, tuple2, At(src.S, tuple1)),
                     L |-> InsertAt(dst.L, tuple2, At(src.L, tuple1)),
                     T |-> InsertAt(dst.T, tuple2, At(src.T, tuple1))]]
           c2 == [c1 EXCEPT ![die1] =
                    [S |-> EraseAt(src.S, tuple1),
                     L |-> EraseAt(src.L, tuple1),
                     T |-> EraseAt(src.T, tuple1)]]
       IN  [CBL |-> c2,
            \* pre-update layer assignment for block to be moved
            layer |-> [lay EXCEPT ![At(src.S, tuple1)] = die2]]

\* faulty variant of switchInsertionDirection: both branches set VERTICAL
switchInsertionDirection_bothVertical(cbl, die, tuple) ==
  [cbl EXCEPT ![die].L = SetAt(@, tuple, VERTICAL)]


switchInsertionDirection(cbl, die, tuple) ==
  [cbl EXCEPT ![die].L =
     SetAt(@, tuple, IF At(@, tuple) = VERTICAL THEN HORIZONTAL ELSE VERTICAL)]

switchTupleJunctions(cbl, die, tuple, juncts) ==
  [cbl EXCEPT ![die].T = SetAt(@, tuple, juncts)]

(***************************************************************************)
(* CorblivarCore: snapshot and best-solution handlers.  A snapshot copies  *)
(* the three lists of every die and, for every block of a die's list S,    *)
(* the rectangle into the side field of the block.                         *)
(***************************************************************************)
\* the blocks found in the lists S of a family of sequences
BlocksOf(cbl) == UNION {Range(cbl[d].S) : d \in Dies}
\* dies are walked in declaration order: the last die listing b writes b last
LastDieOf(cbl, b) ==
  CHOOSE d \in Dies : b \in Range(cbl[d].S)
                      /\ \A e \in Dies : b \in Range(cbl[e].S) => e <= d

\* copy rectangles src -> dst for the blocks listed in cbl
CopyRects(cbl, src, dst) ==
  [b \in Blocks |-> IF b \in BlocksOf(cbl) THEN src[b] ELSE dst[b]]
\* faulty variant of AssignLayers: the layer fields are left as they are
AssignLayers_kept(cbl, lay) == lay

\* b->layer = die.id for the blocks listed in cbl
AssignLayers(cbl, lay) ==
  [b \in Blocks |-> IF b \in BlocksOf(cbl) THEN LastDieOf(cbl, b) ELSE lay[b]]

\* faulty variant of backupCBLs: the rectangles are not backed up
backupCBLs_listsOnly(cbl, rects, rects_backup) ==
  [CBLbackup |-> cbl, bb_backup |-> rects_backup]


backupCBLs(cbl, rects, rects_backup) ==
  [CBLbackup |-> cbl, bb_backup |-> CopyRects(cbl, rects, rects_backup)]

restoreCBLs(cbl_backup, rects, rects_backup, lay) ==
  [CBL |-> cbl_backup,
   bb |-> CopyRects(cbl_backup, rects_backup, rects),
   layer |-> AssignLayers(cbl_backup, lay)]

\* faulty variant of storeBestCBLs: the rectangles are not stored
storeBestCBLs_listsOnly(cbl, rects, rects_best) ==
  [CBLbest |-> cbl, bb_best |-> rects_best]


storeBestCBLs(cbl, rects, rects_best) ==
  [CBLbest |-> cbl, bb_best |-> CopyRects(cbl, rects, rects_best)]

\* number of dies whose best snapshot is empty
empty_dies(cbl_best) == Cardinality({d \in Dies : CBLempty(cbl_best[d])})

\* faulty variant of applyBestCBLs: reports failure as soon as one die's best
\* snapshot is empty
applyBestCBLs_anyEmpty(cbl_best, rects, rects_best, lay) ==
  LET filled == [d \in Dies |-> IF CBLempty(cbl_best[d]) THEN EmptyCBL ELSE cbl_best[d]]
  IN  [CBL |-> filled,
       bb |-> CopyRects(filled, rects_best, rects),
       layer |-> AssignLayers(filled, lay),
       ret |-> empty_dies(cbl_best) = 0]

\* faulty variant of applyBestCBLs: a die whose best snapshot is empty keeps
\* its current sequence
applyBestCBLs_emptyKept(cbl_best, rects, rects_best, lay) ==
  LET filled == [d \in Dies |-> IF CBLempty(cbl_best[d]) THEN CBL[d] ELSE cbl_best[d]]
  IN  [CBL |-> filled,
       bb |-> CopyRects(cbl_best, rects_best, rects),
       layer |-> AssignLayers(cbl_best, lay),
       ret |-> empty_dies(cbl_best) # Cardinality(Dies)]


applyBestCBLs(cbl_best, rects, rects_best, lay) ==
  LET \* dies with an empty best snapshot are cleared and skipped
      filled == [d \in Dies |-> IF CBLempty(cbl_best[d]) THEN EmptyCBL ELSE cbl_best[d]]
  IN  [CBL |-> filled,
       bb |-> CopyRects(filled, rects_best, rects),
       layer |-> AssignLayers(filled, lay),
       ret |-> empty_dies(cbl_best) # Cardinality(Dies)]

(***************************************************************************)
(* CorblivarDie: decoding.  A decode state st holds the fields the decoder *)
(* reads and writes: [bb, placed, Hi, Vi, pi, done, p].                    *)
(***************************************************************************)
\* the n topmost entries of a stack, top first
PopN(stack, n) == [k \in 1 .. n |-> stack[Len(stack) + 1 - k]]
\* the stack after popping n entries
DropN(stack, n) == SubSeq(stack, 1, Len(stack) - n)

MinOver(S) == CHOOSE x \in S : \A y \in S : x <= y
MaxOver(S) == CHOOSE x \in S : \A y \in S : x >= y
Filter(s, keep(_)) == SelectSeq(s, keep)

\* reset of one die before a decode pass: cursor, done flag, both stacks,
\* and the placed flag of every block of its sequence
reset(st, cbl, d) ==
  [st EXCEPT !.pi[d] = 0, !.done[d] = FALSE, !.Hi[d] = <<>>, !.Vi[d] = <<>>,
             !.placed = [b \in Blocks |->
                           IF b \in Range(cbl[d].S) THEN FALSE ELSE st.placed[b]]]

\* increment progress pointer, or mark the die done once the cursor has
\* consumed the whole sequence
updateProgressPointerFlag(st, cbl, d) ==
  LET next == st.pi[d] + 1
  IN  [st EXCEPT !.pi[d] = next, !.done[d] = (next = CBLsize(cbl[d]))]

\* faulty variant of placeHorizontal: the left front of the covered blocks
\* is taken for their right front
placeHorizontal_leftFront(st, d, cur_block, cur_juncts) ==
  LET relevBlocksCount == Min(cur_juncts + 1, Len(st.Hi[d]))
      relevBlocks == PopN(st.Hi[d], relevBlocksCount)
      Hi_popped == DropN(st.Hi[d], relevBlocksCount)
      y == IF Hi_popped = <<>> THEN 0
           ELSE MinOver({st.bb[b].lly : b \in Range(relevBlocks)})
      bb_y == [st.bb[cur_block] EXCEPT !.lly = y, !.ury = st.bb[cur_block].h + y]
      x == MaxOver({0} \cup {st.bb[b].llx : b \in
                     {c \in Range(relevBlocks) : rectsIntersectVertical(bb_y, st.bb[c])}})
      bb_xy == [bb_y EXCEPT !.llx = x, !.urx = bb_y.w + x]
      add_to_stack == \A b \in Range(relevBlocks) :
                         ~rectA_below_rectB(bb_xy, st.bb[b], FALSE)
      NotCovered(b) == ~rectA_leftOf_rectB(st.bb[b], bb_xy, TRUE)
      \* push_front of the kept blocks in pop order, then of cur_block
      blocks_add_to_stack == <<cur_block>> \o Reverse(Filter(relevBlocks, NotCovered))
  IN  [st EXCEPT !.bb[cur_block] = bb_xy,
                 !.Vi[d] = IF add_to_stack THEN Append(@, cur_block) ELSE @,
                 !.Hi[d] = Hi_popped \o blocks_add_to_stack]

\* faulty variant of placeHorizontal: the intersecting blocks are determined
\* before the block's y-coordinates are updated
placeHorizontal_staleSpan(st, d, cur_block, cur_juncts) ==
  LET relevBlocksCount == Min(cur_juncts + 1, Len(st.Hi[d]))
      relevBlocks == PopN(st.Hi[d], relevBlocksCount)
      Hi_popped == DropN(st.Hi[d], relevBlocksCount)
      y == IF Hi_popped = <<>> THEN 0
           ELSE MinOver({st.bb[b].lly : b \in Range(relevBlocks)})
      bb_y == [st.bb[cur_block] EXCEPT !.lly = y, !.ury = st.bb[cur_block].h + y]
      x == MaxOver({0} \cup {st.bb[b].urx : b \in
                     {c \in Range(relevBlocks) : rectsIntersectVertical(st.bb[cur_block], st.bb[c])}})
      bb_xy == [bb_y EXCEPT !.llx = x, !.urx = bb_y.w + x]
      add_to_stack == \A b \in Range(relevBlocks) :
                         ~rectA_below_rectB(bb_xy, st.bb[b], FALSE)
      NotCovered(b) == ~rectA_leftOf_rectB(st.bb[b], bb_xy, TRUE)
      \* push_front of the kept blocks in pop order, then of cur_block
      blocks_add_to_stack == <<cur_block>> \o Reverse(Filter(relevBlocks, NotCovered))
  IN  [st EXCEPT !.bb[cur_block] = bb_xy,
                 !.Vi[d] = IF add_to_stack THEN Append(@, cur_block) ELSE @,
                 !.Hi[d] = Hi_popped \o blocks_add_to_stack]

\* faulty variant of placeHorizontal: the right front is taken over all the
\* popped blocks, whether they intersect in y-direction or not
placeHorizontal_anyRow(st, d, cur_block, cur_juncts) ==
  LET relevBlocksCount == Min(cur_juncts + 1, Len(st.Hi[d]))
      relevBlocks == PopN(st.Hi[d], relevBlocksCount)
      Hi_popped == DropN(st.Hi[d], relevBlocksCount)
      y == IF Hi_popped = <<>> THEN 0
           ELSE MinOver({st.bb[b].lly : b \in Range(relevBlocks)})
      bb_y == [st.bb[cur_block] EXCEPT !.lly = y, !.ury = st.bb[cur_block].h + y]
      x == MaxOver({0} \cup {st.bb[b].urx : b \in Range(relevBlocks)})
      bb_xy == [bb_y EXCEPT !.llx = x, !.urx = bb_y.w + x]
      add_to_stack == \A b \in Range(relevBlocks) :
                         ~rectA_below_rectB(bb_xy, st.bb[b], FALSE)
      NotCovered(b) == ~rectA_leftOf_rectB(st.bb[b], bb_xy, TRUE)
      \* push_front of the kept blocks in pop order, then of cur_block
      blocks_add_to_stack == <<cur_block>> \o Reverse(Filter(relevBlocks, NotCovered))
  IN  [st EXCEPT !.bb[cur_block] = bb_xy,
                 !.Vi[d] = IF add_to_stack THEN Append(@, cur_block) ELSE @,
                 !.Hi[d] = Hi_popped \o blocks_add_to_stack]

\* faulty variant of placeHorizontal: cur_block is pushed after the kept
\* blocks
placeHorizontal_newBlockOnTop(st, d, cur_block, cur_juncts) ==
  LET relevBlocksCount == Min(cur_juncts + 1, Len(st.Hi[d]))
      relevBlocks == PopN(st.Hi[d], relevBlocksCount)
      Hi_popped == DropN(st.Hi[d], relevBlocksCount)
      y == IF Hi_popped = <<>> THEN 0
           ELSE MinOver({st.bb[b].lly : b \in Range(relevBlocks)})
      bb_y == [st.bb[cur_block] EXCEPT !.lly = y, !.ury = st.bb[cur_block].h + y]
      x == MaxOver({0} \cup {st.bb[b].urx : b \in
                     {c \in Range(relevBlocks) : rectsIntersectVertical(bb_y, st.bb[c])}})
      bb_xy == [bb_y EXCEPT !.llx = x, !.urx = bb_y.w + x]
      add_to_stack == \A b \in Range(relevBlocks) :
                         ~rectA_below_rectB(bb_xy, st.bb[b], FALSE)
      NotCovered(b) == ~rectA_leftOf_rectB(st.bb[b], bb_xy, TRUE)
      blocks_add_to_stack == Reverse(Filter(relevBlocks, NotCovered)) \o <<cur_block>>
  IN  [st EXCEPT !.bb[cur_block] = bb_xy,
                 !.Vi[d] = IF add_to_stack THEN Append(@, cur_block) ELSE @,
                 !.Hi[d] = Hi_popped \o blocks_add_to_stack]

\* horizontal placement of cur_block with cur_juncts junctions on die d
placeHorizontal(st, d, cur_block, cur_juncts) ==
  LET relevBlocksCount == Min(cur_juncts + 1, Len(st.Hi[d]))
      relevBlocks == PopN(st.Hi[d], relevBlocksCount)
      Hi_popped == DropN(st.Hi[d], relevBlocksCount)
      y == IF Hi_popped = <<>> THEN 0
           ELSE MinOver({st.bb[b].lly : b \in Range(relevBlocks)})
      bb_y == [st.bb[cur_block] EXCEPT !.lly = y, !.ury = st.bb[cur_block].h + y]
      x == MaxOver({0} \cup {st.bb[b].urx : b \in
                     {c \in Range(relevBlocks) : rectsIntersectVertical(bb_y, st.bb[c])}})
      bb_xy == [bb_y EXCEPT !.llx = x, !.urx = bb_y.w + x]
      add_to_stack == \A b \in Range(relevBlocks) :
                         ~rectA_below_rectB(bb_xy, st.bb[b], FALSE)
      NotCovered(b) == ~rectA_leftOf_rectB(st.bb[b], bb_xy, TRUE)
      \* push_front of the kept blocks in pop order, then of cur_block
      blocks_add_to_stack == <<cur_block>> \o Reverse(Filter(relevBlocks, NotCovered))
  IN  [st EXCEPT !.bb[cur_block] = bb_xy,
                 !.Vi[d] = IF add_to_stack THEN Append(@, cur_block) ELSE @,
                 !.Hi[d] = Hi_popped \o blocks_add_to_stack]

\* faulty variant of placeVertical: the lower front of the covered blocks
\* is taken for their upper front
placeVertical_lowerFront(st, d, cur_block, cur_juncts) ==
  LET relevBlocksCount == Min(cur_juncts + 1, Len(st.Vi[d]))
      relevBlocks == PopN(st.Vi[d], relevBlocksCount)
      Vi_popped == DropN(st.Vi[d], relevBlocksCount)
      x == IF Vi_popped = <<>> THEN 0
           ELSE MinOver({st.bb[b].llx : b \in Range(relevBlocks)})
      bb_x == [st.bb[cur_block] EXCEPT !.llx = x, !.urx = st.bb[cur_block].w + x]
      y == MaxOver({0} \cup {st.bb[b].lly : b \in
                     {c \in Range(relevBlocks) : rectsIntersectHorizontal(bb_x, st.bb[c])}})
      bb_xy == [bb_x EXCEPT !.lly = y, !.ury = bb_x.h + y]
      add_to_stack == \A b \in Range(relevBlocks) :
                         ~rectA_leftOf_rectB(bb_xy, st.bb[b], FALSE)
      NotCovered(b) == ~rectA_below_rectB(st.bb[b], bb_xy, TRUE)
      blocks_add_to_stack == <<cur_block>> \o Reverse(Filter(relevBlocks, NotCovered))
  IN  [st EXCEPT !.bb[cur_block] = bb_xy,
                 !.Hi[d] = IF add_to_stack THEN Append(@, cur_block) ELSE @,
                 !.Vi[d] = Vi_popped \o blocks_add_to_stack]

\* faulty variant of placeVertical: the upper front is taken over the blocks
\* that intersect in y-direction
placeVertical_rowsForColumns(st, d, cur_block, cur_juncts) ==
  LET relevBlocksCount == Min(cur_juncts + 1, Len(st.Vi[d]))
      relevBlocks == PopN(st.Vi[d], relevBlocksCount)
      Vi_popped == DropN(st.Vi[d], relevBlocksCount)
      x == IF Vi_popped = <<>> THEN 0
           ELSE MinOver({st.bb[b].llx : b \in Range(relevBlocks)})
      bb_x == [st.bb[cur_block] EXCEPT !.llx = x, !.urx = st.bb[cur_block].w + x]
      y == MaxOver({0} \cup {st.bb[b].ury : b \in
                     {c \in Range(relevBlocks) : rectsIntersectVertical(bb_x, st.bb[c])}})
      bb_xy == [bb_x EXCEPT !.lly = y, !.ury = bb_x.h + y]
      add_to_stack == \A b \in Range(relevBlocks) :
                         ~rectA_leftOf_rectB(bb_xy, st.bb[b], FALSE)
      NotCovered(b) == ~rectA_below_rectB(st.bb[b], bb_xy, TRUE)
      blocks_add_to_stack == <<cur_block>> \o Reverse(Filter(relevBlocks, NotCovered))
  IN  [st EXCEPT !.bb[cur_block] = bb_xy,
                 !.Hi[d] = IF add_to_stack THEN Append(@, cur_block) ELSE @,
                 !.Vi[d] = Vi_popped \o blocks_add_to_stack]

\* vertical placement of cur_block with cur_juncts junctions on die d
placeVertical(st, d, cur_block, cur_juncts) ==
  LET relevBlocksCount == Min(cur_juncts + 1, Len(st.Vi[d]))
      relevBlocks == PopN(st.Vi[d], relevBlocksCount)
      Vi_popped == DropN(st.Vi[d], relevBlocksCount)
      x == IF Vi_popped = <<>> THEN 0
           ELSE MinOver({st.bb[b].llx : b \in Range(relevBlocks)})
      bb_x == [st.bb[cur_block] EXCEPT !.llx = x, !.urx = st.bb[cur_block].w + x]
      y == MaxOver({0} \cup {st.bb[b].ury : b \in
                     {c \in Range(relevBlocks) : rectsIntersectHorizontal(bb_x, st.bb[c])}})
      bb_xy == [bb_x EXCEPT !.lly = y, !.ury = bb_x.h + y]
      add_to_stack == \A b \in Range(relevBlocks) :
                         ~rectA_leftOf_rectB(bb_xy, st.bb[b], FALSE)
      NotCovered(b) == ~rectA_below_rectB(st.bb[b], bb_xy, TRUE)
      blocks_add_to_stack == <<cur_block>> \o Reverse(Filter(relevBlocks, NotCovered))
  IN  [st EXCEPT !.bb[cur_block] = bb_xy,
                 !.Hi[d] = IF add_to_stack THEN Append(@, cur_block) ELSE @,
                 !.Vi[d] = Vi_popped \o blocks_add_to_stack]

\* faulty variant of placeCurrentBlock: the two directions are mixed up
placeCurrentBlock_directionsMixedUp(st, cbl, d) ==
  IF CBLempty(cbl[d]) THEN [st EXCEPT !.done[d] = TRUE]
  ELSE LET cur_block == At(cbl[d].S, st.pi[d])
           cur_dir == At(cbl[d].L, st.pi[d])
           cur_juncts == At(cbl[d].T, st.pi[d])
       IN  IF st.placed[cur_block] THEN st
           ELSE LET st1 == IF cur_dir = VERTICAL
                           THEN placeHorizontal(st, d, cur_block, cur_juncts)
                           ELSE placeVertical(st, d, cur_block, cur_juncts)
                    st2 == [st1 EXCEPT !.placed[cur_block] = TRUE]
                IN  updateProgressPointerFlag(st2, cbl, d)

\* faulty variant of placeCurrentBlock: the block is not marked as placed
placeCurrentBlock_notMarkedPlaced(st, cbl, d) ==
  IF CBLempty(cbl[d]) THEN [st EXCEPT !.done[d] = TRUE]
  ELSE LET cur_block == At(cbl[d].S, st.pi[d])
           cur_dir == At(cbl[d].L, st.pi[d])
           cur_juncts == At(cbl[d].T, st.pi[d])
       IN  IF st.placed[cur_block] THEN st
           ELSE LET st1 == IF cur_dir = HORIZONTAL
                           THEN placeHorizontal(st, d, cur_block, cur_juncts)
                           ELSE placeVertical(st, d, cur_block, cur_juncts)
                    st2 == st1
                IN  updateProgressPointerFlag(st2, cbl, d)

\* faulty variant of placeCurrentBlock: an empty die is not marked done
placeCurrentBlock_emptyNotDone(st, cbl, d) ==
  IF CBLempty(cbl[d]) THEN st
  ELSE LET cur_block == At(cbl[d].S, st.pi[d])
           cur_dir == At(cbl[d].L, st.pi[d])
           cur_juncts == At(cbl[d].T, st.pi[d])
       IN  IF st.placed[cur_block] THEN st
           ELSE LET st1 == IF cur_dir = HORIZONTAL
                           THEN placeHorizontal(st, d, cur_block, cur_juncts)
                           ELSE placeVertical(st, d, cur_block, cur_juncts)
                    st2 == [st1 EXCEPT !.placed[cur_block] = TRUE]
                IN  updateProgressPointerFlag(st2, cbl, d)

\* faulty variant of placeCurrentBlock: the cursor moves past a block that
\* was placed before
placeCurrentBlock_placedSkipped(st, cbl, d) ==
  IF CBLempty(cbl[d]) THEN [st EXCEPT !.done[d] = TRUE]
  ELSE LET cur_block == At(cbl[d].S, st.pi[d])
           cur_dir == At(cbl[d].L, st.pi[d])
           cur_juncts == At(cbl[d].T, st.pi[d])
       IN  IF st.placed[cur_block] THEN updateProgressPointerFlag(st, cbl, d)
           ELSE LET st1 == IF cur_dir = HORIZONTAL
                           THEN placeHorizontal(st, d, cur_block, cur_juncts)
                           ELSE placeVertical(st, d, cur_block, cur_juncts)
                    st2 == [st1 EXCEPT !.placed[cur_block] = TRUE]
                IN  updateProgressPointerFlag(st2, cbl, d)

\* the block of the tuple at the cursor of die d is placed, if it was not
\* placed before
placeCurrentBlock(st, cbl, d) ==
  IF CBLempty(cbl[d]) THEN [st EXCEPT !.done[d] = TRUE]
  ELSE LET cur_block == At(cbl[d].S, st.pi[d])
           cur_dir == At(cbl[d].L, st.pi[d])
           cur_juncts == At(cbl[d].T, st.pi[d])
       IN  IF st.placed[cur_block] THEN st
           ELSE LET st1 == IF cur_dir = HORIZONTAL
                           THEN placeHorizontal(st, d, cur_block, cur_juncts)
                           ELSE placeVertical(st, d, cur_block, cur_juncts)
                    st2 == [st1 EXCEPT !.placed[cur_block] = TRUE]
                IN  updateProgressPointerFlag(st2, cbl, d)

(***************************************************************************)
(* CorblivarDie: packing.  The blocks of a die are sorted by their         *)
(* coordinate on the packing axis and shifted, one after the other,        *)
(* towards the boundary, up to the nearest front of their neighbours.      *)
(***************************************************************************)
\* the comparison of blocks.sort: r1 goes before r2
sortsBefore(r1, r2, dir) ==
  IF dir = HORIZONTAL
  THEN \/ r1.llx < r2.llx
       \/ r1.llx = r2.llx /\ r1.urx < r2.urx
       \/ r1.llx = r2.llx /\ r1.urx = r2.urx /\ r1.lly < r2.lly
  ELSE \/ r1.lly < r2.lly
       \/ r1.lly = r2.lly /\ r1.ury < r2.ury
       \/ r1.lly = r2.lly /\ r1.ury = r2.ury /\ r1.llx < r2.llx

\* std::list::sort is stable: a block goes behind the blocks it does not
\* sort before
RECURSIVE insertSorted(_, _, _, _)
insertSorted(blocks, b, rects, dir) ==
  IF blocks = <<>> THEN <<b>>
  ELSE IF sortsBefore(rects[b], rects[Head(blocks)], dir) THEN <<b>> \o blocks
  ELSE <<Head(blocks)>> \o insertSorted(Tail(blocks), b, rects, dir)

RECURSIVE sortBlocks(_, _, _)
sortBlocks(S, rects, dir) ==
  IF S = <<>> THEN <<>>
  ELSE insertSorted(sortBlocks(SubSeq(S, 1, Len(S) - 1), rects, dir), S[Len(S)], rects, dir)

\* the extent, on the axis orthogonal to packing, of the intersection of two
\* rectangles: Rect::determineIntersection(a, b).h, respectively .w
intersectionExtent(a, b, dir) ==
  IF dir = HORIZONTAL
  THEN Min(a.ury, b.ury) - (IF a.lly >= b.lly THEN a.lly ELSE b.lly)
  ELSE Min(a.urx, b.urx) - (IF a.llx >= b.llx THEN a.llx ELSE b.llx)

\* faulty variant of nearestFront: the neighbour's lower-left coordinate
nearestFront_lowerLeft(r, dir) == IF dir = HORIZONTAL THEN r.llx ELSE r.lly

\* the neighbour's front that faces the packed block
nearestFront(r, dir) == IF dir = HORIZONTAL THEN r.urx ELSE r.ury

\* the walk over blocks[k], blocks[k - 1], ..., in reverse sorted order, for
\* the packed coordinate x of block; checked is the range of the block
\* front covered so far
RECURSIVE scanNeighbors(_, _, _, _, _, _, _)
scanNeighbors(blocks, rects, block, k, x, checked, dir) ==
  IF k = 0 THEN x
  ELSE LET neighbor == blocks[k]
           adjacent == IF dir = HORIZONTAL
                       THEN rectA_leftOf_rectB(rects[neighbor], rects[block], TRUE)
                       ELSE rectA_below_rectB(rects[neighbor], rects[block], TRUE)
           front == nearestFront(rects[neighbor], dir)
           x1 == IF adjacent /\ front > x THEN front ELSE x
           checked1 == IF adjacent
                       THEN checked + intersectionExtent(rects[neighbor], rects[block], dir)
                       ELSE checked
           full == IF dir = HORIZONTAL THEN rects[block].h = checked1
                   ELSE rects[block].w = checked1
       IN  \* the full block front was checked: stop
           IF full THEN x1
           ELSE scanNeighbors(blocks, rects, block, k - 1, x1, checked1, dir)

\* faulty variant of packedRect: the far edge stays where it was
packedRect_farEdgeKept(r, c, dir) ==
  IF dir = HORIZONTAL THEN [r EXCEPT !.llx = c] ELSE [r EXCEPT !.lly = c]

\* update coordinate on block itself: the near edge goes to the packed
\* coordinate c, the far edge follows with the block's extent
packedRect(r, c, dir) ==
  IF dir = HORIZONTAL
  THEN [r EXCEPT !.llx = c, !.urx = r.w + c]
  ELSE [r EXCEPT !.lly = c, !.ury = r.h + c]

\* the loop over the sorted blocks, from position i on; the rectangles are
\* updated in place
RECURSIVE packBlocks(_, _, _, _)
packBlocks(blocks, rects, i, dir) ==
  IF i > Len(blocks) THEN rects
  ELSE LET block == blocks[i]
           r == rects[block]
       IN  \* blocks at the boundary are implicitly packed
           IF (IF dir = HORIZONTAL THEN r.llx ELSE r.lly) = 0
           THEN packBlocks(blocks, rects, i + 1, dir)
           ELSE LET c == scanNeighbors(blocks, rects, block, i - 1, 0, 0, dir)
                IN  packBlocks(blocks, [rects EXCEPT ![block] = packedRect(r, c, dir)],
                               i + 1, dir)

performPacking(rects, cbl, d, dir) ==
  IF CBLempty(cbl[d]) THEN rects
  ELSE packBlocks(sortBlocks(cbl[d].S, rects, dir), rects, 1, dir)

(***************************************************************************)
(* CorblivarCore: die selection and layout generation                      *)
(***************************************************************************)
\* faulty variant of switchDie: the loop does not stop at the first
\* unfinished die
switchDie_lastUnfinished(st) ==
  LET unfinished == {d \in Dies : ~st.done[d]}
      cur == IF unfinished # {} THEN MaxOver(unfinished) ELSE st.p
  IN  [p |-> cur, ret |-> ~st.done[cur]]

\* switchDie: continue on the first unfinished die, if any; the result is
\* the new current die and whether decoding can continue
switchDie(st) ==
  LET unfinished == {d \in Dies : ~st.done[d]}
      cur == IF unfinished # {} THEN MinOver(unfinished) ELSE st.p
  IN  [p |-> cur, ret |-> ~st.done[cur]]

RECURSIVE resetDies(_, _, _)
resetDies(st, cbl, d) ==
  IF d \notin Dies THEN st ELSE resetDies(reset(st, cbl, d), cbl, d + 1)

\* the decode loop: place the current block of the current die; once the
\* die is done, switch the die or stop
RECURSIVE layoutLoop(_, _)
layoutLoop(st, cbl) ==
  LET st1 == placeCurrentBlock(st, cbl, st.p)
  IN  IF st1.done[st1.p]
      THEN LET sw == switchDie(st1)
           IN  IF sw.ret THEN layoutLoop([st1 EXCEPT !.p = sw.p], cbl)
               ELSE [st1 EXCEPT !.p = sw.p]
      ELSE layoutLoop(st1, cbl)

\* generateLayout without alignment requests
generateLayout(st, cbl) ==
  layoutLoop([resetDies(st, cbl, 0) EXCEPT !.p = 0], cbl)

(***************************************************************************)
(* Math: the random source.  randI(min, max) draws from [min, max) and     *)
(* yields min for an empty range.                                          *)
(***************************************************************************)
randI(min, max) == IF max = min THEN {min} ELSE min .. (max - 1)
randB == BOOLEAN

(***************************************************************************)
(* Block: reshaping.  Each yields [ret, bb]: the result and the new        *)
(* rectangle of the block.                                                 *)
(***************************************************************************)
\* a <= b for fractions <<num, den>> with positive denominators
FracLeq(a, b) == a[1] * b[2] <= b[1] * a[2]

rotate(b, r) ==
  IF BlockRotatable(b)
  THEN [ret |-> TRUE, bb |-> [r EXCEPT !.w = r.h, !.h = r.w]]
  ELSE [ret |-> FALSE, bb |-> r]

\* the widths sqrt(randF(AR.min, AR.max) * area) can take, in fixed point
widthsByAR(b, r) ==
  {w \in 1 .. r.area : /\ FracLeq(BlockARmin(b), <<w * w, r.area>>)
                       /\ FracLeq(<<w * w, r.area>>, BlockARmax(b))}

shapeRandomlyByAR(b, r, w) ==
  IF BlockRotatable(b)
  THEN LET h == r.area \div w
       IN  [ret |-> TRUE,
            bb |-> [r EXCEPT !.w = w, !.h = h, !.urx = r.llx + w, !.ury = r.lly + h]]
  ELSE [ret |-> FALSE, bb |-> r]

\* faulty variant of shapeByWidthHeight: the new dimensions are applied
\* before the aspect ratio is checked
shapeByWidthHeight_applyFirst(b, r, width, height) ==
  LET AR == IF height < 0 THEN <<0 - width, 0 - height>> ELSE <<width, height>>
  IN  [ret |-> /\ height # 0
               /\ FracLeq(BlockARmin(b), AR)
               /\ FracLeq(AR, BlockARmax(b))
               /\ BlockRotatable(b),
       bb |-> [r EXCEPT !.urx = r.llx + width, !.ury = r.lly + height,
                        !.w = width, !.h = height]]

\* width / height are doubles: height 0 stands for an infinite or undefined
\* ratio, which no aspect-ratio range admits
shapeByWidthHeight(b, r, width, height) ==
  LET AR == IF height < 0 THEN <<0 - width, 0 - height>> ELSE <<width, height>>
  IN  IF /\ height # 0
         /\ FracLeq(BlockARmin(b), AR)
         /\ FracLeq(AR, BlockARmax(b))
         /\ BlockRotatable(b)
      THEN [ret |-> TRUE,
            bb |-> [r EXCEPT !.urx = r.llx + width, !.ury = r.lly + height,
                             !.w = width, !.h = height]]
      ELSE [ret |-> FALSE, bb |-> r]

\* x / y of doubles, in fixed point; a zero divisor yields an unbounded value
\* that shapeByWidthHeight rejects by its ratio
Quot(x, y) == IF y = 0 THEN 0 ELSE x \div y

(***************************************************************************)
(* LayoutOperations: enhanced shaping.  rects are the rectangles of all    *)
(* blocks, cbl the sequences; the blocks looked at are those of the die    *)
(* of the shaped block.                                                    *)
(***************************************************************************)
performOpEnhancedSoftBlockShaping(cbl, rects, lay, shape_block, op, w) ==
  LET r == rects[shape_block]
      others == {rects[b] : b \in Range(cbl[lay[shape_block]].S)}
  IN  CASE op = OP_SHAPE_BLOCK__STRETCH_HORIZONTAL ->
             LET boundary_x == MinOver({2 * r.urx} \cup {o.urx : o \in {q \in others : q.urx > r.urx}})
                 width == boundary_x - r.llx
             IN  shapeByWidthHeight(shape_block, r, width, Quot(r.area, width))
        [] op = OP_SHAPE_BLOCK__SHRINK_HORIZONTAL ->
             LET boundary_x == MaxOver({0} \cup {o.llx : o \in {q \in others : q.llx < r.urx}})
                 width == boundary_x - r.llx
             IN  shapeByWidthHeight(shape_block, r, width, Quot(r.area, width))
        [] op = OP_SHAPE_BLOCK__STRETCH_VERTICAL ->
             LET boundary_y == MinOver({2 * r.ury} \cup {o.ury : o \in {q \in others : q.ury > r.ury}})
                 height == boundary_y - r.lly
             IN  shapeByWidthHeight(shape_block, r, Quot(r.area, height), height)
        [] op = OP_SHAPE_BLOCK__SHRINK_VERTICAL ->
             LET boundary_y == MaxOver({0} \cup {o.lly : o \in {q \in others : q.lly < r.ury}})
                 height == boundary_y - r.lly
             IN  shapeByWidthHeight(shape_block, r, Quot(r.area, height), height)
        [] op = OP_SHAPE_BLOCK__RANDOM_AR ->
             [ret |-> TRUE, bb |-> shapeRandomlyByAR(shape_block, r, w).bb]
        [] OTHER -> [ret |-> FALSE, bb |-> r]

performOpEnhancedHardBlockRotation(cbl, rects, lay, shape_block) ==
  LET r == rects[shape_block]
      others == {rects[b] : b \in Range(cbl[lay[shape_block]].S)}
      horizontal == r.w > r.h
      row_max_height == MaxOver({r.h} \cup {o.h : o \in {q \in others : q.lly = r.lly}})
      col_max_width == MaxOver({r.w} \cup {o.w : o \in {q \in others : q.llx = r.llx}})
      gain == IF horizontal THEN r.w - r.h ELSE r.h - r.w
      loss == IF horizontal THEN r.w - row_max_height ELSE r.h - col_max_width
  IN  IF loss < 0 \/ gain > loss
      THEN [ret |-> TRUE, bb |-> rotate(shape_block, r).bb]
      ELSE [ret |-> FALSE, bb |-> r]

(***************************************************************************)
(* The state machine                                                       *)
(***************************************************************************)
NoOperands == [die1 |-> -1, die2 |-> -1, tuple1 |-> -1, tuple2 |-> -1, juncts |-> -1]

\* the block RBOD, the reference of alignment requests, and no block at all
RBOD == 0
NoBlock == -1

\* no call of performRandomLayoutOp was kept track of; tracking tells whether
\* the driver keeps track of its calls' arguments, of the guided selection
\* and of the operands of the operators that return false
NoCall == [tracking |-> FALSE, SA_phase_two |-> FALSE, attempted |-> FALSE,
           swapping_failed_blocks |-> FALSE, failed_req |-> 0, b1 |-> NoBlock,
           b1_neighbour |-> NoBlock, sel |-> NoOperands, ops |-> NoOperands]

\* the state after the construction of the core, the registry and the operators
Constructed ==
  /\ CBL = [d \in Dies |-> EmptyCBL]
  /\ CBLbackup = [d \in Dies |-> EmptyCBL]
  /\ CBLbest = [d \in Dies |-> EmptyCBL]
  /\ bb = [b \in Blocks |-> Rect(0, 0, BlockWidth(b), BlockHeight(b), BlockWidth(b) * BlockHeight(b))]
  /\ bb_backup = [b \in Blocks |-> ZeroRect]
  /\ bb_best = [b \in Blocks |-> ZeroRect]
  /\ layer = [b \in Blocks |-> -1]
  /\ placed = [b \in Blocks |-> FALSE]
  /\ Hi = [d \in Dies |-> <<>>]
  /\ Vi = [d \in Dies |-> <<>>]
  /\ pi = [d \in Dies |-> 0]
  /\ done = [d \in Dies |-> FALSE]
  /\ p = 0
  /\ last_op = [op |-> -1, ops |-> NoOperands]
  /\ parameters \in ParameterSets
  /\ phase = "constructed"
  /\ hist = <<>>
  /\ alignments = <<>>
  /\ alignment = [b \in Blocks |-> UNDEF]
  /\ last_call = NoCall

\* the record of one driver call: its name, result, operator kind, whether
\* it was a revert, the operands it used, whether it read outside a
\* sequence, and the observable state it started from
CallRecord(name, ret, op, revert, ops, oob) ==
  [name |-> name, ret |-> ret, op |-> op, revert |-> revert, ops |-> ops,
   oob |-> oob, obs |-> Obs]

Plain(name, ret) == CallRecord(name, ret, -1, FALSE, NoOperands, FALSE)

\* the driver calls the initialised core, a bounded number of times
Ready == phase = "initialised" /\ budget.steps > 0

Call(rec) ==
  /\ budget' = [steps |-> budget.steps - 1,
                ops |-> IF rec.name = "performRandomLayoutOp" /\ ~rec.revert
                        THEN budget.ops - 1 ELSE budget.ops]
  /\ hist' = IF Len(hist) = 2 THEN <<hist[2], rec>> ELSE Append(hist, rec)
  /\ UNCHANGED <<parameters, phase, alignments, alignment>>

\* the sequence of the blocks of `blocks` assigned to die d, in registry order
RECURSIVE assigned(_, _, _)
assigned(die_of, d, b) ==
  IF b \notin Blocks THEN <<>>
  ELSE (IF die_of[b] = d THEN <<b>> ELSE <<>>) \o assigned(die_of, d, b + 1)

\* initCorblivarRandomly: every block, in registry order, is appended to a
\* randomly drawn die with a randomly drawn direction and junction count 0
initCorblivarRandomly ==
  /\ phase = "constructed"
  /\ \E die_of \in [Blocks -> Dies], dir_of \in [Blocks -> Direction] :
       /\ CBL' = [d \in Dies |->
                    LET S == assigned(die_of, d, 1)
                    IN  [S |-> S,
                         L |-> [k \in 1 .. Len(S) |-> dir_of[S[k]]],
                         T |-> [k \in 1 .. Len(S) |-> 0]]]
       /\ layer' = die_of
  /\ phase' = "initialised"
  /\ UNCHANGED <<CBLbackup, CBLbest, bb, bb_backup, bb_best, placed, Hi, Vi, pi,
                 done, p, last_op, parameters, budget, hist, alignments, alignment,
                 last_call>>

GenerateLayout ==
  /\ Ready
  /\ UNCHANGED last_call
  /\ LET st == generateLayout([bb |-> bb, placed |-> placed, Hi |-> Hi, Vi |-> Vi,
                               pi |-> pi, done |-> done, p |-> p], CBL)
     IN  /\ bb' = st.bb /\ placed' = st.placed /\ Hi' = st.Hi /\ Vi' = st.Vi
         /\ pi' = st.pi /\ done' = st.done /\ p' = st.p
         /\ Call(Plain("generateLayout", TRUE))
         /\ UNCHANGED <<CBL, CBLbackup, CBLbest, bb_backup, bb_best, layer, last_op>>

BackupCBLs ==
  /\ Ready
  /\ UNCHANGED last_call
  /\ LET r == backupCBLs(CBL, bb, bb_backup)
     IN  /\ CBLbackup' = r.CBLbackup /\ bb_backup' = r.bb_backup
         /\ Call(Plain("backupCBLs", TRUE))
         /\ UNCHANGED <<CBL, CBLbest, bb, bb_best, layer, placed, Hi, Vi, pi, done, p, last_op>>

RestoreCBLs ==
  /\ Ready
  /\ UNCHANGED last_call
  /\ LET r == restoreCBLs(CBLbackup, bb, bb_backup, layer)
     IN  /\ CBL' = r.CBL /\ bb' = r.bb /\ layer' = r.layer
         /\ Call(Plain("restoreCBLs", TRUE))
         /\ UNCHANGED <<CBLbackup, CBLbest, bb_backup, bb_best, placed, Hi, Vi, pi, done, p, last_op>>

StoreBestCBLs ==
  /\ Ready
  /\ UNCHANGED last_call
  /\ LET r == storeBestCBLs(CBL, bb, bb_best)
     IN  /\ CBLbest' = r.CBLbest /\ bb_best' = r.bb_best
         /\ Call(Plain("storeBestCBLs", TRUE))
         /\ UNCHANGED <<CBL, CBLbackup, bb, bb_backup, layer, placed, Hi, Vi, pi, done, p, last_op>>

ApplyBestCBLs ==
  /\ Ready
  /\ UNCHANGED last_call
  /\ LET r == applyBestCBLs(CBLbest, bb, bb_best, layer)
     IN  /\ CBL' = r.CBL /\ bb' = r.bb /\ layer' = r.layer
         /\ Call(Plain("applyBestCBLs", r.ret))
         /\ UNCHANGED <<CBLbackup, CBLbest, bb_backup, bb_best, placed, Hi, Vi, pi, done, p, last_op>>

(***************************************************************************)
(* LayoutOperations: the operators.  Finish is the tail of                 *)
(* performRandomLayoutOp: last_op is set before the operator runs, the     *)
(* operands are memorized only for a successful operator.                  *)
(***************************************************************************)
Finish(op, ret, revert, ops, oob, cbl, lay, rects, rects_backup) ==
  /\ CBL' = cbl /\ layer' = lay /\ bb' = rects /\ bb_backup' = rects_backup
  /\ last_op' = [op |-> op, ops |-> IF ret THEN ops ELSE last_op.ops]
  /\ Call(CallRecord("performRandomLayoutOp", ret, op, revert,
                     IF ret \/ last_call.tracking THEN ops ELSE NoOperands, oob))
  /\ UNCHANGED <<CBLbackup, CBLbest, bb_best, placed, Hi, Vi, pi, done, p>>

\* an operator that returns false before it changed anything
Rejected(op, ops, oob) == Finish(op, FALSE, FALSE, ops, oob, CBL, layer, bb, bb_backup)

getBlock(die, tuple) == At(CBL[die].S, tuple)

\* what a read of Block::power_density past the end of a sequence can yield
StrayPowerDensities ==
  (MinOver({BlockPowerDensity(b) : b \in Blocks}) - 1) ..
  (MaxOver({BlockPowerDensity(b) : b \in Blocks}) + 1)

\* an operand is drawn at random, if not preassigned
preassigned(operand, drawn) == IF operand = -1 THEN drawn ELSE {operand}

\* faulty variant of differentTuples: equal tuples of one die are kept
differentTuples_kept(die1, die2, tuple1, tuple2, size1) == {tuple2}

\* in case of swapping/moving within the same die, tuple2 is drawn again
\* until the tuples are different
differentTuples(die1, die2, tuple1, tuple2, size1) ==
  IF die1 = die2 /\ tuple1 = tuple2 THEN randI(0, size1) \ {tuple1} ELSE {tuple2}

\* power-aware block handling: blocks with lower power density remain in
\* the lower layer
powerAwareBan(die1, die2, pd1, pd2) ==
  /\ parameters.power_aware_block_handling
  /\ \/ die1 < die2 /\ pd1 < pd2
     \/ die2 < die1 /\ pd2 < pd1

\* faulty variant of floorplacementBan: only the first block is looked at
floorplacementBan_firstBlockOnly(SA_phase_one, fp1, fp2) ==
  parameters.floorplacement /\ SA_phase_one /\ fp1

\* in SA phase one, floorplacement blocks are not moved or swapped
floorplacementBan(SA_phase_one, fp1, fp2) ==
  parameters.floorplacement /\ SA_phase_one /\ (fp1 \/ fp2)

\* pre holds the preassigned operands die1, die2, tuple1, tuple2, each -1
\* if not preassigned
performOpMoveOrSwapBlocks(mode, SA_phase_one, pre) ==
  \E die1 \in preassigned(pre.die1, randI(0, parameters.layers)),
     die2 \in preassigned(pre.die2, randI(0, parameters.layers)) :
    LET dies_only == [NoOperands EXCEPT !.die1 = die1, !.die2 = die2]
        size1 == CBLsize(CBL[die1])
        size2 == CBLsize(CBL[die2])
    IN  IF \/ mode = OP_MOVE_TUPLE /\ CBLempty(CBL[die1])
           \/ mode = OP_SWAP_BLOCKS /\ (CBLempty(CBL[die1]) \/ CBLempty(CBL[die2]))
        THEN Rejected(mode, dies_only, FALSE)
        ELSE \E tuple1 \in preassigned(pre.tuple1, randI(0, size1)),
                drawn2 \in preassigned(pre.tuple2, randI(0, size2)) :
          IF die1 = die2 /\ size1 < 2
          THEN Rejected(mode, [dies_only EXCEPT !.tuple1 = tuple1, !.tuple2 = drawn2], FALSE)
          ELSE \E tuple2 \in differentTuples(die1, die2, tuple1, drawn2, size1) :
            LET ops == [dies_only EXCEPT !.tuple1 = tuple1, !.tuple2 = tuple2]
                b1 == getBlock(die1, tuple1)
                \* getBlock(tuple2) of an empty destination die reads past
                \* the end of its list: the block read is arbitrary
                past_end == tuple2 >= size2
                reads_pd == parameters.power_aware_block_handling /\ die1 # die2
                reads_fp == /\ parameters.floorplacement /\ SA_phase_one
                            /\ ~BlockFloorplacement(b1)
            IN  \E pd2 \in (IF past_end THEN StrayPowerDensities
                            ELSE {BlockPowerDensity(getBlock(die2, tuple2))}),
                   fp2 \in (IF past_end THEN BOOLEAN
                            ELSE {BlockFloorplacement(getBlock(die2, tuple2))}) :
                  IF powerAwareBan(die1, die2, BlockPowerDensity(b1), pd2)
                  THEN Rejected(mode, ops, past_end)
                  ELSE IF floorplacementBan(SA_phase_one, BlockFloorplacement(b1), fp2)
                  THEN Rejected(mode, ops, past_end /\ (reads_pd \/ reads_fp))
                  ELSE LET r == IF mode = OP_MOVE_TUPLE
                                THEN moveTuples(CBL, layer, die1, die2, tuple1, tuple2)
                                ELSE swapBlocks(CBL, layer, die1, die2, tuple1, tuple2)
                       IN  Finish(mode, TRUE, FALSE, ops,
                                  past_end /\ (reads_pd \/ reads_fp),
                                  r.CBL, r.layer, bb, bb_backup)

performOpSwitchInsertionDirection(pre) ==
  \E die1 \in preassigned(pre.die1, randI(0, parameters.layers)) :
    IF CBLempty(CBL[die1])
    THEN Rejected(OP_SWITCH_INSERTION_DIR, [NoOperands EXCEPT !.die1 = die1], FALSE)
    ELSE \E tuple1 \in preassigned(pre.tuple1, randI(0, CBLsize(CBL[die1]))) :
           Finish(OP_SWITCH_INSERTION_DIR, TRUE, FALSE,
                  [NoOperands EXCEPT !.die1 = die1, !.tuple1 = tuple1], FALSE,
                  switchInsertionDirection(CBL, die1, tuple1), layer, bb, bb_backup)

\* faulty variant of newJuncts: a junction count of 0 is decremented too
newJuncts_zeroDecremented(juncts, up) == IF up THEN juncts + 1 ELSE juncts - 1

\* the junction count the operator switches to: junctions must be geq 0
newJuncts(juncts, up) == IF juncts = 0 THEN juncts + 1
                         ELSE IF up THEN juncts + 1 ELSE juncts - 1

performOpSwitchTupleJunctions(pre) ==
  \E die1 \in preassigned(pre.die1, randI(0, parameters.layers)) :
    IF CBLempty(CBL[die1])
    THEN Rejected(OP_SWITCH_TUPLE_JUNCTS, [NoOperands EXCEPT !.die1 = die1], FALSE)
    ELSE \E tuple1 \in preassigned(pre.tuple1, randI(0, CBLsize(CBL[die1]))),
            up \in randB :
           LET juncts == At(CBL[die1].T, tuple1)
           IN  Finish(OP_SWITCH_TUPLE_JUNCTS, TRUE, FALSE,
                      [NoOperands EXCEPT !.die1 = die1, !.tuple1 = tuple1, !.juncts = juncts],
                      FALSE,
                      switchTupleJunctions(CBL, die1, tuple1, newJuncts(juncts, up)),
                      layer, bb, bb_backup)

\* faulty variant of backupCurrentShape: the shape is not backed up
backupCurrentShape_skipped(rects_backup, rects, shape_block) == rects_backup

\* backup current shape: shape_block->bb_backup = shape_block->bb
backupCurrentShape(rects_backup, rects, shape_block) ==
  [rects_backup EXCEPT ![shape_block] = rects[shape_block]]

performOpShapeBlock(pre) ==
  \E die1 \in preassigned(pre.die1, randI(0, parameters.layers)) :
    IF CBLempty(CBL[die1])
    THEN Rejected(OP_ROTATE_BLOCK__SHAPE_BLOCK, [NoOperands EXCEPT !.die1 = die1], FALSE)
    ELSE \E tuple1 \in preassigned(pre.tuple1, randI(0, CBLsize(CBL[die1]))) :
      LET shape_block == getBlock(die1, tuple1)
          ops == [NoOperands EXCEPT !.die1 = die1, !.tuple1 = tuple1]
          backup == backupCurrentShape(bb_backup, bb, shape_block)
          r == bb[shape_block]
          done_with(res) ==
            Finish(OP_ROTATE_BLOCK__SHAPE_BLOCK, res.ret, FALSE, ops, FALSE,
                   CBL, layer, [bb EXCEPT ![shape_block] = res.bb], backup)
      IN  IF BlockSoft(shape_block)
          THEN IF parameters.enhanced_soft_block_shaping
               THEN \E shape_op \in randI(OP_SHAPE_BLOCK__STRETCH_HORIZONTAL,
                                          OP_SHAPE_BLOCK__RANDOM_AR + 1) :
                      \E w \in (IF shape_op = OP_SHAPE_BLOCK__RANDOM_AR
                                THEN widthsByAR(shape_block, r) ELSE {r.w}) :
                        done_with(performOpEnhancedSoftBlockShaping(
                                    CBL, bb, layer, shape_block, shape_op, w))
               ELSE \E w \in widthsByAR(shape_block, r) :
                      done_with([ret |-> TRUE, bb |-> shapeRandomlyByAR(shape_block, r, w).bb])
          ELSE IF parameters.enhanced_hard_block_rotation
               THEN done_with(performOpEnhancedHardBlockRotation(CBL, bb, layer, shape_block))
               ELSE done_with([ret |-> TRUE, bb |-> rotate(shape_block, r).bb])

(***************************************************************************)
(* LayoutOperations: guided block alignment.  An alignment request is a    *)
(* record of its blocks s_i and s_j, its types and values per axis and its *)
(* flag fulfilled; Block::alignment is the status of a block.              *)
(***************************************************************************)
OFFSET == "OFFSET"
MIN == "MIN"

offset_x(req) == req.type_x = OFFSET
offset_y(req) == req.type_y = OFFSET
range_x(req) == req.type_x = MIN
range_y(req) == req.type_y = MIN

\* Block::layer; RBOD keeps the -1 of its construction
layerOf(b) == IF b = RBOD THEN -1 ELSE layer[b]

\* the index of the tuple of die d that holds the block, -1 if none does
getTuple(d, block) ==
  LET S == CBL[d].S
  IN  IF \E k \in 1 .. Len(S) : S[k] = block
      THEN (CHOOSE k \in 1 .. Len(S) : S[k] = block) - 1
      ELSE -1

\* faulty variant of firstFailed: the last failed request is taken
firstFailed_last(reqs) ==
  LET failed == {r \in 1 .. Len(reqs) : ~reqs[r].fulfilled}
  IN  IF failed = {} THEN 0 ELSE MaxOver(failed)

\* determine first failed alignment: its position in the list, 0 if all
\* requests are fulfilled
firstFailed(reqs) ==
  LET failed == {r \in 1 .. Len(reqs) : ~reqs[r].fulfilled}
  IN  IF failed = {} THEN 0 ELSE MinOver(failed)

\* randomly decide for one block; consider the dummy reference block if
\* required
anchors(req) ==
  {b1 \in {req.s_i, req.s_j} :
     \E coin \in randB :
        IF (req.s_i # RBOD /\ coin) \/ req.s_j = RBOD
        THEN b1 = req.s_i ELSE b1 = req.s_j}

\* zero-offset fixed alignment in both dimensions, or min overlap in both
\* dimensions
intersectRequired(req) ==
  \/ offset_x(req) /\ req.alignment_x = 0 /\ offset_y(req) /\ req.alignment_y = 0
  \/ range_x(req) /\ range_y(req)

\* the block of the request that b1 is to be aligned with
otherParticipant(req, b1) == IF b1 = req.s_i THEN req.s_j ELSE req.s_i

\* faulty variant of intersectingBlock: the first block is taken
intersectingBlock_anyBlock(S, k, b1, partner) ==
  IF k > Len(S) THEN NoBlock ELSE S[k]

\* the first block of the list S, from position k on, that intersects b1
\* and is not `partner', the block that b1 is to be aligned with
RECURSIVE intersectingBlock(_, _, _, _)
intersectingBlock(S, k, b1, partner) ==
  IF k > Len(S) THEN NoBlock
  ELSE IF rectsIntersect(bb[b1], bb[S[k]]) /\ S[k] # partner THEN S[k]
  ELSE intersectingBlock(S, k + 1, b1, partner)

\* faulty variant of nearer: the farther block is taken
nearer_farther(coord, best, towards_origin) ==
  IF towards_origin THEN coord < best ELSE coord > best

\* whether a boundary at coord is nearer than the one at best, for
\* neighbours away from the origin (towards_origin false) or towards it
nearer(coord, best, towards_origin) ==
  IF towards_origin THEN coord > best ELSE coord < best

\* the nearest neighbour of b1 among the blocks of the list S, from
\* position k on, given the nearest one found so far
RECURSIVE nearestNeighbour(_, _, _, _)
nearestNeighbour(S, k, b1, b1_neighbour) ==
  IF k > Len(S) THEN b1_neighbour
  ELSE
    LET b2 == S[k]
        first == b1_neighbour = NoBlock
        take ==
          CASE alignment[b1] = FAIL_HOR_TOO_LEFT ->
                 /\ rectA_leftOf_rectB(bb[b1], bb[b2], TRUE)
                 /\ (first \/ nearer(bb[b2].llx, bb[b1_neighbour].llx, FALSE))
            [] alignment[b1] = FAIL_HOR_TOO_RIGHT ->
                 /\ rectA_leftOf_rectB(bb[b2], bb[b1], TRUE)
                 /\ (first \/ nearer(bb[b2].urx, bb[b1_neighbour].urx, TRUE))
            [] alignment[b1] = FAIL_VERT_TOO_LOW ->
                 /\ rectA_below_rectB(bb[b1], bb[b2], TRUE)
                 /\ (first \/ nearer(bb[b2].lly, bb[b1_neighbour].lly, FALSE))
            [] alignment[b1] = FAIL_VERT_TOO_HIGH ->
                 /\ rectA_below_rectB(bb[b2], bb[b1], TRUE)
                 /\ (first \/ nearer(bb[b2].ury, bb[b1_neighbour].ury, TRUE))
            [] OTHER -> FALSE
    IN  nearestNeighbour(S, k + 1, b1, IF take THEN b2 ELSE b1_neighbour)

\* what the guided selection hands back: its result, the request and the
\* blocks it determined, and the operands die1, die2, tuple1, tuple2 it set
Selection(ret, failed_req, b1, b1_neighbour, die1, die2, tuple1, tuple2) ==
  [ret |-> ret, failed_req |-> failed_req, b1 |-> b1, b1_neighbour |-> b1_neighbour,
   ops |-> [NoOperands EXCEPT !.die1 = die1, !.die2 = die2,
                              !.tuple1 = tuple1, !.tuple2 = tuple2]]

\* no guided selection took place
NoSelection == Selection(FALSE, 0, NoBlock, NoBlock, -1, -1, -1, -1)

\* the selections that prepareBlockSwappingFailedAlignment can make, over
\* its random draws
prepareBlockSwappingFailedAlignment ==
  LET failed_req == firstFailed(alignments)
      req == alignments[failed_req]
      other_dies(die1) == randI(0, parameters.layers) \ {die1}
      \* the selection with block b1 on die1 and the blocks of die2
      selected(b1, die1, die2) ==
        LET b1_neighbour ==
              IF intersectRequired(req)
              THEN intersectingBlock(CBL[die2].S, 1, b1, otherParticipant(req, b1))
              ELSE nearestNeighbour(CBL[die2].S, 1, b1, NoBlock)
        IN  IF b1_neighbour # NoBlock
            THEN Selection(TRUE, failed_req, b1, b1_neighbour, die1, die2,
                           getTuple(die1, b1), getTuple(die2, b1_neighbour))
            ELSE Selection(FALSE, failed_req, b1, NoBlock, die1, die2,
                           getTuple(die1, b1), -1)
      for(b1) ==
        LET die1 == layerOf(b1)
        IN  IF intersectRequired(req)
            THEN IF layerOf(req.s_i) = layerOf(req.s_j)
                 THEN IF parameters.layers = 1
                      THEN {Selection(FALSE, failed_req, b1, NoBlock, die1, die1,
                                      getTuple(die1, b1), -1)}
                      ELSE {selected(b1, die1, die2) : die2 \in other_dies(die1)}
                 ELSE {selected(b1, die1, die1)}
            ELSE {selected(b1, die1, die2) :
                    die2 \in {die1} \cup (IF parameters.layers > 1
                                          THEN other_dies(die1) ELSE {})}
  IN  IF failed_req = 0 THEN {NoSelection}
      ELSE UNION {for(b1) : b1 \in anchors(req)}

\* faulty variant of resetOperands: the operands are kept
resetOperands_kept(ops) == ops

\* reset layout operation variables
resetOperands(ops) == NoOperands

\* a random operation, on the operands pre
randomLayoutOp(SA_phase_two, pre) ==
  \E op \in randI(1, 6) :
    \/ op = OP_SWAP_BLOCKS
       /\ performOpMoveOrSwapBlocks(OP_SWAP_BLOCKS, ~SA_phase_two, pre)
    \/ op = OP_MOVE_TUPLE
       /\ performOpMoveOrSwapBlocks(OP_MOVE_TUPLE, ~SA_phase_two, pre)
    \/ op = OP_SWITCH_INSERTION_DIR /\ performOpSwitchInsertionDirection(pre)
    \/ op = OP_SWITCH_TUPLE_JUNCTS /\ performOpSwitchTupleJunctions(pre)
    \/ op = OP_ROTATE_BLOCK__SHAPE_BLOCK /\ performOpShapeBlock(pre)

\* to enable guided block alignment during phase II, block swapping is
\* preferably performed on blocks of failing alignment requests
guidedAttempt(SA_phase_two) == SA_phase_two /\ parameters.opt_alignment

\* performRandomLayoutOp applying a new operator
PerformRandomLayoutOp ==
  /\ Ready
  /\ budget.ops > 0
  /\ \E SA_phase_two \in BOOLEAN :
       LET attempted == guidedAttempt(SA_phase_two)
       IN  \E g \in (IF attempted THEN prepareBlockSwappingFailedAlignment
                     ELSE {NoSelection}) :
             LET pre == IF g.ret THEN g.ops ELSE resetOperands(g.ops)
             IN  /\ last_call' =
                      IF last_call.tracking
                      THEN [tracking |-> TRUE, SA_phase_two |-> SA_phase_two,
                            attempted |-> attempted,
                            swapping_failed_blocks |-> g.ret,
                            failed_req |-> g.failed_req, b1 |-> g.b1,
                            b1_neighbour |-> g.b1_neighbour, sel |-> g.ops,
                            ops |-> pre]
                      ELSE last_call
                 /\ IF g.ret
                    THEN performOpMoveOrSwapBlocks(OP_SWAP_BLOCKS, ~SA_phase_two, pre)
                    ELSE randomLayoutOp(SA_phase_two, pre)

\* the driver reverts an operator it applied: directly, or after the layout
\* it generated to evaluate the operator
RevertAllowed ==
  LET applied(c) == c.name = "performRandomLayoutOp" /\ c.ret /\ ~c.revert
  IN  \/ Len(hist) >= 1 /\ applied(hist[Len(hist)])
      \/ Len(hist) = 2 /\ hist[2].name = "generateLayout" /\ applied(hist[1])

\* performRandomLayoutOp with revertLastOp
RevertLastOp ==
  /\ Ready
  /\ UNCHANGED last_call
  /\ RevertAllowed
  /\ LET op == last_op.op
         o == last_op.ops
         r == CASE op = OP_SWAP_BLOCKS ->
                     swapBlocks(CBL, layer, o.die1, o.die2, o.tuple1, o.tuple2)
                [] op = OP_MOVE_TUPLE ->
                     moveTuples(CBL, layer, o.die2, o.die1, o.tuple2, o.tuple1)
                [] op = OP_SWITCH_INSERTION_DIR ->
                     [CBL |-> switchInsertionDirection(CBL, o.die1, o.tuple1), layer |-> layer]
                [] op = OP_SWITCH_TUPLE_JUNCTS ->
                     [CBL |-> switchTupleJunctions(CBL, o.die1, o.tuple1, o.juncts), layer |-> layer]
                [] OTHER -> [CBL |-> CBL, layer |-> layer]
         rects == IF op = OP_ROTATE_BLOCK__SHAPE_BLOCK
                  THEN [bb EXCEPT ![getBlock(o.die1, o.tuple1)] = bb_backup[getBlock(o.die1, o.tuple1)]]
                  ELSE bb
     IN  Finish(op, TRUE, TRUE, NoOperands, FALSE, r.CBL, r.layer, rects, bb_backup)

(***************************************************************************)
(* Specifications: the driver with all operators and the decoder (Spec),   *)
(* with the snapshot handlers (SpecSnapshot), and with the best-solution   *)
(* handlers (SpecBest).                                                    *)
(***************************************************************************)
Init == Constructed /\ budget = [steps |-> MaxSteps, ops |-> MaxOps]

Next ==
  \/ initCorblivarRandomly
  \/ GenerateLayout
  \/ PerformRandomLayoutOp
  \/ RevertLastOp

Spec == Init /\ [][Next]_vars

InitSnapshot == Constructed /\ budget = [steps |-> SnapshotSteps, ops |-> SnapshotOps]

NextSnapshot ==
  \/ initCorblivarRandomly
  \/ GenerateLayout
  \/ PerformRandomLayoutOp
  \/ BackupCBLs
  \/ RestoreCBLs

SpecSnapshot == InitSnapshot /\ [][NextSnapshot]_vars

InitBest == Constructed /\ budget = [steps |-> BestSteps, ops |-> BestOps]

NextBest ==
  \/ initCorblivarRandomly
  \/ GenerateLayout
  \/ PerformRandomLayoutOp
  \/ StoreBestCBLs
  \/ ApplyBestCBLs

SpecBest == InitBest /\ [][NextBest]_vars

InitSequences == Constructed /\ budget = [steps |-> SequenceSteps, ops |-> SequenceOps]

NextSequences ==
  \/ initCorblivarRandomly
  \/ PerformRandomLayoutOp
  \/ RevertLastOp
  \/ BackupCBLs
  \/ RestoreCBLs
  \/ StoreBestCBLs
  \/ ApplyBestCBLs

SpecSequences == InitSequences /\ [][NextSequences]_vars

(***************************************************************************)
(* The decoder, call by call (SpecDecode): the sequences, with any         *)
(* directions, junction counts and block dimensions, are decoded by calls  *)
(* of placeCurrentBlock on the current die and of switchDie; once all dies *)
(* are done, they are reset for another pass.                              *)
(***************************************************************************)
\* the fields the decoder reads and writes
DecodeSt ==
  [bb |-> bb, placed |-> placed, Hi |-> Hi, Vi |-> Vi, pi |-> pi, done |-> done, p |-> p]

\* the record of one decoder call: its name, its result, the state it
\* started from, and the rectangles the previous pass ended with
DecodeRecord(name, ret) ==
  [name |-> name, ret |-> ret, pre |-> DecodeSt,
   prev |-> IF hist = <<>> THEN <<>> ELSE hist[1].prev]

\* what placeCurrentBlock returns: no block (0) for an empty die, else the
\* block of the current tuple
returnedBlock(st, cbl, d) ==
  IF CBLempty(cbl[d]) THEN 0 ELSE At(cbl[d].S, st.pi[d])

InitDecode ==
  /\ \E die_of \in [Blocks -> Dies], dir_of \in [Blocks -> Direction],
        juncts_of \in [Blocks -> 0 .. MaxJuncts], shape_of \in [Blocks -> DecodeShapes] :
       /\ CBL = [d \in Dies |->
                   LET S == assigned(die_of, d, 1)
                   IN  [S |-> S,
                        L |-> [k \in 1 .. Len(S) |-> dir_of[S[k]]],
                        T |-> [k \in 1 .. Len(S) |-> juncts_of[S[k]]]]]
       /\ layer = die_of
       /\ bb = [b \in Blocks |->
                  Rect(0, 0, shape_of[b][1], shape_of[b][2], shape_of[b][1] * shape_of[b][2])]
  /\ CBLbackup = [d \in Dies |-> EmptyCBL]
  /\ CBLbest = [d \in Dies |-> EmptyCBL]
  /\ bb_backup = [b \in Blocks |-> ZeroRect]
  /\ bb_best = [b \in Blocks |-> ZeroRect]
  /\ placed = [b \in Blocks |-> FALSE]
  /\ Hi = [d \in Dies |-> <<>>]
  /\ Vi = [d \in Dies |-> <<>>]
  /\ pi = [d \in Dies |-> 0]
  /\ done = [d \in Dies |-> FALSE]
  /\ p = 0
  /\ last_op = [op |-> -1, ops |-> NoOperands]
  /\ parameters = CHOOSE ps \in ParameterSets : ~ps.floorplacement
  /\ phase = "decoding"
  /\ budget = [steps |-> DecodeResets, ops |-> 0]
  /\ hist = <<>>
  /\ alignments = <<>>
  /\ alignment = [b \in Blocks |-> UNDEF]
  /\ last_call = NoCall

\* the decoder's writes st, with the record of the call
Decoded(st, rec) ==
  /\ bb' = st.bb /\ placed' = st.placed /\ Hi' = st.Hi /\ Vi' = st.Vi
  /\ pi' = st.pi /\ done' = st.done /\ p' = st.p
  /\ hist' = <<rec>>
  /\ UNCHANGED <<CBL, CBLbackup, CBLbest, bb_backup, bb_best, layer, last_op,
                 parameters, phase, alignments, alignment, last_call>>

\* p->placeCurrentBlock() on the current die, as long as it is not done
PlaceCurrentBlock ==
  /\ phase = "decoding"
  /\ ~done[p]
  /\ Decoded(placeCurrentBlock(DecodeSt, CBL, p),
             DecodeRecord("placeCurrentBlock", returnedBlock(DecodeSt, CBL, p)))
  /\ UNCHANGED budget

SwitchDie ==
  /\ phase = "decoding"
  /\ LET sw == switchDie(DecodeSt)
     IN  Decoded([DecodeSt EXCEPT !.p = sw.p], DecodeRecord("switchDie", sw.ret))
  /\ UNCHANGED budget

\* the start of another pass: all dies are reset, the first die is current
ResetDies ==
  /\ phase = "decoding"
  /\ budget.steps > 0
  /\ \A d \in Dies : done[d]
  /\ Decoded([resetDies(DecodeSt, CBL, 0) EXCEPT !.p = 0],
             [DecodeRecord("reset", TRUE) EXCEPT !.prev = bb])
  /\ budget' = [budget EXCEPT !.steps = @ - 1]

NextDecode ==
  \/ PlaceCurrentBlock
  \/ SwitchDie
  \/ ResetDies

SpecDecode == InitDecode /\ [][NextDecode]_vars

(***************************************************************************)
(* The decoder entered with blocks that were placed before (SpecReentry):  *)
(* some blocks were placed, in the process of resolving alignment          *)
(* requests, before the decoder reaches their tuples.                      *)
(***************************************************************************)
InitReentry ==
  /\ \E die_of \in [Blocks -> Dies], dir_of \in [Blocks -> Direction],
        juncts_of \in [Blocks -> 0 .. MaxJuncts], placed_of \in [Blocks -> BOOLEAN],
        x \in PackCoords, y \in PackCoords :
       /\ CBL = [d \in Dies |->
                   LET S == assigned(die_of, d, 1)
                   IN  [S |-> S,
                        L |-> [k \in 1 .. Len(S) |-> dir_of[S[k]]],
                        T |-> [k \in 1 .. Len(S) |-> juncts_of[S[k]]]]]
       /\ layer = die_of
       /\ placed = placed_of
       /\ bb = [b \in Blocks |->
                  IF placed_of[b]
                  THEN Rect(x, y, BlockWidth(b), BlockHeight(b), BlockWidth(b) * BlockHeight(b))
                  ELSE Rect(0, 0, BlockWidth(b), BlockHeight(b), BlockWidth(b) * BlockHeight(b))]
  /\ CBLbackup = [d \in Dies |-> EmptyCBL]
  /\ CBLbest = [d \in Dies |-> EmptyCBL]
  /\ bb_backup = [b \in Blocks |-> ZeroRect]
  /\ bb_best = [b \in Blocks |-> ZeroRect]
  /\ Hi = [d \in Dies |-> <<>>]
  /\ Vi = [d \in Dies |-> <<>>]
  /\ pi = [d \in Dies |-> 0]
  /\ done = [d \in Dies |-> FALSE]
  /\ p = 0
  /\ last_op = [op |-> -1, ops |-> NoOperands]
  /\ parameters = CHOOSE ps \in ParameterSets : ~ps.floorplacement
  /\ phase = "decoding"
  /\ budget = [steps |-> 0, ops |-> 0]
  /\ hist = <<>>
  /\ alignments = <<>>
  /\ alignment = [b \in Blocks |-> UNDEF]
  /\ last_call = NoCall

NextReentry ==
  \/ PlaceCurrentBlock
  \/ SwitchDie

SpecReentry == InitReentry /\ [][NextReentry]_vars

(***************************************************************************)
(* Packing (SpecPacking): the blocks of the dies, with any dimensions of   *)
(* PackShapes at any position of PackCoords, are packed by calls of        *)
(* performPacking on a die along an axis.                                  *)
(***************************************************************************)
InitPacking ==
  /\ \E die_of \in [Blocks -> Dies], shape_of \in [Blocks -> PackShapes],
        x_of \in [Blocks -> PackCoords], y_of \in [Blocks -> PackCoords] :
       /\ CBL = [d \in Dies |->
                   LET S == assigned(die_of, d, 1)
                   IN  [S |-> S,
                        L |-> [k \in 1 .. Len(S) |-> HORIZONTAL],
                        T |-> [k \in 1 .. Len(S) |-> 0]]]
       /\ layer = die_of
       /\ bb = [b \in Blocks |->
                  Rect(x_of[b], y_of[b], shape_of[b][1], shape_of[b][2],
                       shape_of[b][1] * shape_of[b][2])]
  /\ CBLbackup = [d \in Dies |-> EmptyCBL]
  /\ CBLbest = [d \in Dies |-> EmptyCBL]
  /\ bb_backup = [b \in Blocks |-> ZeroRect]
  /\ bb_best = [b \in Blocks |-> ZeroRect]
  /\ placed = [b \in Blocks |-> TRUE]
  /\ Hi = [d \in Dies |-> <<>>]
  /\ Vi = [d \in Dies |-> <<>>]
  /\ pi = [d \in Dies |-> CBLsize(CBL[d])]
  /\ done = [d \in Dies |-> TRUE]
  /\ p = 0
  /\ last_op = [op |-> -1, ops |-> NoOperands]
  /\ parameters = CHOOSE ps \in ParameterSets : ~ps.floorplacement
  /\ phase = "packing"
  /\ budget = [steps |-> PackingCalls, ops |-> 0]
  /\ hist = <<>>
  /\ alignments = <<>>
  /\ alignment = [b \in Blocks |-> UNDEF]
  /\ last_call = NoCall

\* dies[d].performPacking(dir)
PerformPacking ==
  /\ phase = "packing"
  /\ budget.steps > 0
  /\ \E d \in Dies, dir \in Direction :
       /\ bb' = performPacking(bb, CBL, d, dir)
       /\ hist' = <<[name |-> "performPacking", die |-> d, dir |-> dir, pre |-> bb]>>
  /\ budget' = [budget EXCEPT !.steps = @ - 1]
  /\ UNCHANGED <<CBL, CBLbackup, CBLbest, bb_backup, bb_best, layer, placed, Hi, Vi,
                 pi, done, p, last_op, parameters, phase, alignments, alignment,
                 last_call>>

NextPacking == PerformPacking

SpecPacking == InitPacking /\ [][NextPacking]_vars

(***************************************************************************)
(* Packing of a layout without overlaps (SpecCompaction): one die holds    *)
(* CompactedBlocks blocks, with any dimensions of CompactionShapes at any  *)
(* position of CompactionXs x CompactionYs such that no two of them        *)
(* overlap; the other die is empty.                                        *)
(***************************************************************************)
InitCompaction ==
  /\ \E d0 \in Dies,
        shape_of \in [1 .. CompactedBlocks -> CompactionShapes],
        x_of \in [1 .. CompactedBlocks -> CompactionXs],
        y_of \in [1 .. CompactedBlocks -> CompactionYs] :
       LET rects == [b \in 1 .. CompactedBlocks |->
                       Rect(x_of[b], y_of[b], shape_of[b][1], shape_of[b][2],
                            shape_of[b][1] * shape_of[b][2])]
       IN  /\ \A a, b \in 1 .. CompactedBlocks :
                a # b => ~rectsIntersect(rects[a], rects[b])
           /\ CBL = [d \in Dies |->
                       IF d = d0
                       THEN [S |-> [k \in 1 .. CompactedBlocks |-> k],
                             L |-> [k \in 1 .. CompactedBlocks |-> HORIZONTAL],
                             T |-> [k \in 1 .. CompactedBlocks |-> 0]]
                       ELSE EmptyCBL]
           /\ layer = [b \in 1 .. CompactedBlocks |-> d0]
           /\ bb = rects
  /\ CBLbackup = [d \in Dies |-> EmptyCBL]
  /\ CBLbest = [d \in Dies |-> EmptyCBL]
  /\ bb_backup = [b \in 1 .. CompactedBlocks |-> ZeroRect]
  /\ bb_best = [b \in 1 .. CompactedBlocks |-> ZeroRect]
  /\ placed = [b \in 1 .. CompactedBlocks |-> TRUE]
  /\ Hi = [d \in Dies |-> <<>>]
  /\ Vi = [d \in Dies |-> <<>>]
  /\ pi = [d \in Dies |-> CBLsize(CBL[d])]
  /\ done = [d \in Dies |-> TRUE]
  /\ p = 0
  /\ last_op = [op |-> -1, ops |-> NoOperands]
  /\ parameters = CHOOSE ps \in ParameterSets : ~ps.floorplacement
  /\ phase = "packing"
  /\ budget = [steps |-> PackingCalls, ops |-> 0]
  /\ hist = <<>>
  /\ alignments = <<>>
  /\ alignment = [b \in 1 .. CompactedBlocks |-> UNDEF]
  /\ last_call = NoCall

NextCompaction == PerformPacking

SpecCompaction == InitCompaction /\ [][NextCompaction]_vars

(***************************************************************************)
(* The driver keeping track of its calls of performRandomLayoutOp          *)
(* (SpecGuided): on a generated layout, with alignment requests that were  *)
(* evaluated, it applies new operators in either SA phase.                 *)
(***************************************************************************)
GuidedParameters(floorplacement, opt_alignment, layers) ==
  [power_aware_block_handling |-> FALSE, floorplacement |-> floorplacement,
   enhanced_soft_block_shaping |-> FALSE, enhanced_hard_block_rotation |-> FALSE,
   opt_alignment |-> opt_alignment, layers |-> layers]

GuidedParameterSets ==
  {GuidedParameters(TRUE, TRUE, 2), GuidedParameters(FALSE, TRUE, 1),
   GuidedParameters(TRUE, FALSE, 2)}

\* the blocks <<s_i, s_j>> of the alignment requests
AlignmentPairs == {<<1, 2>>, <<RBOD, 3>>, <<2, RBOD>>}
\* their <<type_x, alignment_x, type_y, alignment_y>>
AlignmentKinds == {<<OFFSET, 0, OFFSET, 0>>, <<MIN, 1, MIN, 1>>, <<OFFSET, 0, OFFSET, 1>>}

AlignmentReq(pair, kind, fulfilled) ==
  [s_i |-> pair[1], s_j |-> pair[2], type_x |-> kind[1], alignment_x |-> kind[2],
   type_y |-> kind[3], alignment_y |-> kind[4], fulfilled |-> fulfilled]

\* the lists of alignment requests, as evaluated
AlignmentLists ==
  {<<AlignmentReq(pair, kind, fulfilled[1]),
     AlignmentReq(<<3, 1>>, <<OFFSET, 1, MIN, 1>>, fulfilled[2])>> :
     pair \in AlignmentPairs, kind \in AlignmentKinds,
     fulfilled \in {<<FALSE, FALSE>>, <<TRUE, FALSE>>, <<TRUE, TRUE>>}}

\* the alignment status that the evaluation left with the blocks
GuidedStatuses == AlignmentStatus \ {SUCCESS}

InitGuided ==
  /\ parameters \in GuidedParameterSets
  /\ \E die_of \in [Blocks -> randI(0, parameters.layers)], dir \in Direction :
       LET cbl == [d \in Dies |->
                     LET S == assigned(die_of, d, 1)
                     IN  [S |-> S,
                          L |-> [k \in 1 .. Len(S) |-> dir],
                          T |-> [k \in 1 .. Len(S) |-> 0]]]
           st == generateLayout(
                   [bb |-> [b \in Blocks |->
                              Rect(0, 0, BlockWidth(b), BlockHeight(b),
                                   BlockWidth(b) * BlockHeight(b))],
                    placed |-> [b \in Blocks |-> FALSE],
                    Hi |-> [d \in Dies |-> <<>>], Vi |-> [d \in Dies |-> <<>>],
                    pi |-> [d \in Dies |-> 0], done |-> [d \in Dies |-> FALSE],
                    p |-> 0], cbl)
       IN  /\ CBL = cbl /\ layer = die_of
           /\ bb = st.bb /\ placed = st.placed /\ Hi = st.Hi /\ Vi = st.Vi
           /\ pi = st.pi /\ done = st.done /\ p = st.p
  /\ CBLbackup = [d \in Dies |-> EmptyCBL]
  /\ CBLbest = [d \in Dies |-> EmptyCBL]
  /\ bb_backup = [b \in Blocks |-> ZeroRect]
  /\ bb_best = [b \in Blocks |-> ZeroRect]
  /\ last_op = [op |-> -1, ops |-> NoOperands]
  /\ phase = "initialised"
  /\ budget = [steps |-> GuidedCalls, ops |-> GuidedCalls]
  /\ hist = <<>>
  /\ alignments \in AlignmentLists
  /\ \E status \in GuidedStatuses : alignment = [b \in Blocks |-> status]
  /\ last_call = [NoCall EXCEPT !.tracking = TRUE]

NextGuided == PerformRandomLayoutOp

SpecGuided == InitGuided /\ [][NextGuided]_vars

\* bounds of the specification of one backup/restore transaction
TransactionSteps == 3
TransactionOps == 2

\* the state right after initCorblivarRandomly() and backupCBLs(): every
\* block is listed on a die, and the backup holds the sequences and the
\* rectangles of that moment
InitTransaction ==
  /\ parameters \in ParameterSets
  /\ \E die_of \in [Blocks -> Dies], dir \in Direction :
       LET cbl == [d \in Dies |->
                     LET S == assigned(die_of, d, 1)
                     IN  [S |-> S,
                          L |-> [k \in 1 .. Len(S) |-> dir],
                          T |-> [k \in 1 .. Len(S) |-> 0]]]
           rects == [b \in Blocks |->
                       Rect(0, 0, BlockWidth(b), BlockHeight(b),
                            BlockWidth(b) * BlockHeight(b))]
           r == backupCBLs(cbl, rects, [b \in Blocks |-> ZeroRect])
       IN  /\ CBL = cbl /\ layer = die_of /\ bb = rects
           /\ CBLbackup = r.CBLbackup /\ bb_backup = r.bb_backup
  /\ CBLbest = [d \in Dies |-> EmptyCBL]
  /\ bb_best = [b \in Blocks |-> ZeroRect]
  /\ placed = [b \in Blocks |-> FALSE]
  /\ Hi = [d \in Dies |-> <<>>]
  /\ Vi = [d \in Dies |-> <<>>]
  /\ pi = [d \in Dies |-> 0]
  /\ done = [d \in Dies |-> FALSE]
  /\ p = 0
  /\ last_op = [op |-> -1, ops |-> NoOperands]
  /\ phase = "initialised"
  /\ budget = [steps |-> TransactionSteps, ops |-> TransactionOps]
  /\ hist = <<>>
  /\ alignments = <<>>
  /\ alignment = [b \in Blocks |-> UNDEF]
  /\ last_call = NoCall

\* the tentative mutations of one transaction and the restore that ends it
NextTransaction ==
  \/ PerformRandomLayoutOp
  \/ RevertLastOp
  \/ GenerateLayout
  \/ RestoreCBLs

SpecTransaction == InitTransaction /\ [][NextTransaction]_vars

(***************************************************************************)
(* Properties                                                              *)
(***************************************************************************)
\* the last call and the call before it
Last == hist[Len(hist)]
Before == hist[1]
HasLast == Len(hist) >= 1
HasTwo == Len(hist) = 2

\* call c applied a new operator of kind op successfully
Applied(c, op) ==
  c.name = "performRandomLayoutOp" /\ ~c.revert /\ c.ret /\ c.op = op
\* the last call reverted the operator of kind op that the call before applied
Reverted(op) ==
  /\ HasTwo
  /\ Applied(Before, op)
  /\ hist[2].name = "performRandomLayoutOp" /\ hist[2].revert
\* the last two calls were a and then b
Calls(a, b) == HasTwo /\ hist[1].name = a /\ hist[2].name = b


\* C1: backupCBLs() directly followed by restoreCBLs() leaves the three
\* lists of every layer, every block's rectangle and every block's layer
\* field as they were before backupCBLs().
C1_BackupRestoreRoundTrip ==
  Calls("backupCBLs", "restoreCBLs") => Obs = Before.obs

\* C1 happens with a decoded layout: some block of a sequence was moved
\* away from the origin before the backup
C1_Witness ==
  /\ Calls("backupCBLs", "restoreCBLs")
  /\ \E b \in BlocksOf(CBL) : bb[b].llx > 0 \/ bb[b].lly > 0
  /\ \E d \in Dies : CBLsize(CBL[d]) >= 2

\* C2: applyBestCBLs() returns false exactly when the best snapshot of
\* every layer is empty.
C2_ApplyBestResult ==
  (HasLast /\ Last.name = "applyBestCBLs")
    => (Last.ret = FALSE <=> \A d \in Dies : CBLempty(CBLbest[d]))

\* C2 happens with one layer's best snapshot empty and another's not:
\* the call returns true
C2_Witness ==
  /\ HasLast /\ Last.name = "applyBestCBLs" /\ Last.ret
  /\ \E d \in Dies : CBLempty(CBLbest[d])
  /\ \E d \in Dies : ~CBLempty(CBLbest[d])

\* C3: storeBestCBLs() directly followed by applyBestCBLs() leaves the
\* sequences, rectangles and layer fields unchanged, and a second
\* applyBestCBLs() directly after a first one changes nothing, whatever
\* happened between storeBestCBLs() and the first applyBestCBLs().
C3_BestRoundTrip ==
  /\ Calls("storeBestCBLs", "applyBestCBLs") => Obs = Before.obs
  /\ Calls("applyBestCBLs", "applyBestCBLs") => Obs = Last.obs

\* C3 happens with a stored best solution that the first applyBestCBLs()
\* had to bring back, the sequences having been changed in between
C3_Witness ==
  /\ Calls("applyBestCBLs", "applyBestCBLs")
  /\ Before.ret
  /\ Before.obs.CBL # CBL

\* C4: a successfully applied swap operator, directly reverted, restores
\* the lists of every layer and every block's layer field.
C4_SwapRevert ==
  Reverted(OP_SWAP_BLOCKS) => CBL = Before.obs.CBL /\ layer = Before.obs.layer

\* C4 happens with a swap across two layers
C4_Witness ==
  /\ Reverted(OP_SWAP_BLOCKS)
  /\ Before.ops.die1 # Before.ops.die2
  /\ Last.obs.CBL # CBL

\* C5: a successfully applied relocation within one layer, directly
\* reverted, restores the three lists of that layer.
C5_MoveWithinLayerRevert ==
  (Reverted(OP_MOVE_TUPLE) /\ Before.ops.die1 = Before.ops.die2)
    => CBL = Before.obs.CBL

\* the lists of a die, with the tuple at index i taken out
WithoutTuple(cbl, i) ==
  [S |-> EraseAt(cbl.S, i), L |-> EraseAt(cbl.L, i), T |-> EraseAt(cbl.T, i)]
\* the tuple at index i of the lists of a die
TupleAt(cbl, i) == <<At(cbl.S, i), At(cbl.L, i), At(cbl.T, i)>>

\* C6: a relocation across two layers takes exactly one tuple out of die1
\* and puts it, unchanged, at index tuple2 of die2, with the block's layer
\* field set to die2; the directly following revert restores the lists of
\* both layers and the layer field.
C6_MoveAcrossLayers ==
  /\ (HasLast /\ Applied(Last, OP_MOVE_TUPLE) /\ Last.ops.die1 # Last.ops.die2)
       => LET o == Last.ops
              pre == Last.obs.CBL
          IN  /\ CBL[o.die1] = WithoutTuple(pre[o.die1], o.tuple1)
              /\ CBLsize(CBL[o.die2]) = CBLsize(pre[o.die2]) + 1
              /\ WithoutTuple(CBL[o.die2], o.tuple2) = pre[o.die2]
              /\ TupleAt(CBL[o.die2], o.tuple2) = TupleAt(pre[o.die1], o.tuple1)
              /\ layer[At(pre[o.die1].S, o.tuple1)] = o.die2
              /\ \A d \in Dies \ {o.die1, o.die2} : CBL[d] = pre[d]
  /\ (Reverted(OP_MOVE_TUPLE) /\ Before.ops.die1 # Before.ops.die2)
       => CBL = Before.obs.CBL /\ layer = Before.obs.layer

\* C6 happens with a tuple relocated into the middle of another layer and
\* brought back
C6_Witness ==
  /\ Reverted(OP_MOVE_TUPLE)
  /\ Before.ops.die1 # Before.ops.die2
  /\ Before.ops.tuple2 > 0

\* C7: a direction toggle or a junction change, directly reverted, restores
\* the tuple's direction, respectively junction count, and changes no other
\* tuple of any layer.
C7_DirectionJunctionsRevert ==
  (Reverted(OP_SWITCH_INSERTION_DIR) \/ Reverted(OP_SWITCH_TUPLE_JUNCTS))
    => CBL = Before.obs.CBL

\* C7 happens with a junction count that an earlier operator had raised
C7_Witness ==
  /\ Reverted(OP_SWITCH_TUPLE_JUNCTS)
  /\ Before.ops.juncts >= 1
  /\ Last.obs.CBL # CBL

\* C8: the reshape/rotate operator copies the block's rectangle to its
\* backup field before reshaping, and a revert directly after a successful
\* application restores the rectangle.
C8_ShapeRevert ==
  /\ (HasLast /\ Applied(Last, OP_ROTATE_BLOCK__SHAPE_BLOCK))
       => LET b == getBlock(Last.ops.die1, Last.ops.tuple1)
          IN  bb_backup[b] = Last.obs.bb[b]
  /\ Reverted(OP_ROTATE_BLOCK__SHAPE_BLOCK) => bb = Before.obs.bb

\* C8 happens with a block of a decoded layout whose shape the operator
\* changed
C8_Witness ==
  /\ Reverted(OP_ROTATE_BLOCK__SHAPE_BLOCK)
  /\ Last.obs.bb # bb
  /\ \E b \in Blocks : bb[b].llx > 0 \/ bb[b].lly > 0

\* C9: when performRandomLayoutOp, not reverting, returns false, the lists
\* of every layer, every block's layer field and every block's current
\* rectangle are as before the call.
C9_RejectedOpChangesNothing ==
  (HasLast /\ Last.name = "performRandomLayoutOp" /\ ~Last.revert /\ ~Last.ret)
    => Obs = Last.obs

\* C9 happens with a reshape that was rejected after the operands were
\* chosen and the rectangle was backed up
C9_Witness ==
  /\ HasLast /\ Last.name = "performRandomLayoutOp" /\ ~Last.revert /\ ~Last.ret
  /\ Last.op = OP_ROTATE_BLOCK__SHAPE_BLOCK
  /\ \E b \in Blocks : bb_backup[b] # ZeroRect

\* C10: moveTuples within one layer keeps the tuple count and the relative
\* order of the other tuples, and the relocated tuple, unchanged, is at
\* index tuple2 afterwards.
C10_MoveWithinLayer ==
  (HasLast /\ Applied(Last, OP_MOVE_TUPLE) /\ Last.ops.die1 = Last.ops.die2)
    => LET o == Last.ops
           pre == Last.obs.CBL[o.die1]
           now == CBL[o.die1]
       IN  /\ CBLsize(now) = CBLsize(pre)
           /\ Len(now.L) = Len(pre.L) /\ Len(now.T) = Len(pre.T)
           /\ TupleAt(now, o.tuple2) = TupleAt(pre, o.tuple1)
           /\ WithoutTuple(now, o.tuple2) = WithoutTuple(pre, o.tuple1)

\* C11 as stated: swapBlocks exchanges the two tuples, so that each of the
\* two positions holds the complete former tuple (block, direction,
\* junction count) of the other.
C11_SwapExchangesTuples ==
  (HasLast /\ Applied(Last, OP_SWAP_BLOCKS))
    => LET o == Last.ops
           pre == Last.obs.CBL
       IN  /\ TupleAt(CBL[o.die1], o.tuple1) = TupleAt(pre[o.die2], o.tuple2)
           /\ TupleAt(CBL[o.die2], o.tuple2) = TupleAt(pre[o.die1], o.tuple1)

\* C11 as amended: swapBlocks exchanges the blocks of the two tuples; every
\* position, the two swapped ones included, keeps its direction and its
\* junction count, and no other entry of a block list changes.
C11_SwapExchangesBlocks ==
  (HasLast /\ Applied(Last, OP_SWAP_BLOCKS))
    => LET o == Last.ops
           pre == Last.obs.CBL
       IN  /\ At(CBL[o.die1].S, o.tuple1) = At(pre[o.die2].S, o.tuple2)
           /\ At(CBL[o.die2].S, o.tuple2) = At(pre[o.die1].S, o.tuple1)
           /\ \A d \in Dies :
                /\ CBL[d].L = pre[d].L /\ CBL[d].T = pre[d].T
                /\ Len(CBL[d].S) = Len(pre[d].S)
                /\ \A i \in 0 .. (Len(pre[d].S) - 1) :
                     (<<d, i>> \notin {<<o.die1, o.tuple1>>, <<o.die2, o.tuple2>>})
                       => At(CBL[d].S, i) = At(pre[d].S, i)

\* C11 happens with a swap of two tuples of different directions
C11_Witness ==
  /\ HasLast /\ Applied(Last, OP_SWAP_BLOCKS)
  /\ At(Last.obs.CBL[Last.ops.die1].L, Last.ops.tuple1)
       # At(Last.obs.CBL[Last.ops.die2].L, Last.ops.tuple2)

\* C12: after swapBlocks across two layers each of the two exchanged blocks
\* has its layer field equal to the layer whose sequence now holds it;
\* a swap within one layer changes no layer field.
C12_SwapLayerFields ==
  (HasLast /\ Applied(Last, OP_SWAP_BLOCKS))
    => LET o == Last.ops
           b1 == At(Last.obs.CBL[o.die1].S, o.tuple1)
           b2 == At(Last.obs.CBL[o.die2].S, o.tuple2)
       IN  IF o.die1 # o.die2
           THEN /\ b1 \in Range(CBL[o.die2].S) /\ layer[b1] = o.die2
                /\ b2 \in Range(CBL[o.die1].S) /\ layer[b2] = o.die1
                /\ \A b \in Blocks \ {b1, b2} : layer[b] = Last.obs.layer[b]
           ELSE layer = Last.obs.layer

\* C12 happens with a swap across two layers
C12_Witness ==
  /\ HasLast /\ Applied(Last, OP_SWAP_BLOCKS)
  /\ Last.ops.die1 # Last.ops.die2
  /\ layer # Last.obs.layer

\* C13: in every state reached by swaps, relocations, direction toggles,
\* junction changes, backup, restore, storeBest and applyBest from a
\* well-formed initial assignment, the three lists of each layer have equal
\* length and no block occurs at more than one position of the current
\* sequences of all layers together.
C13_WellFormedSequences ==
  /\ \A d \in Dies : Len(CBL[d].S) = Len(CBL[d].L) /\ Len(CBL[d].L) = Len(CBL[d].T)
  /\ \A d1, d2 \in Dies :
       \A i \in 1 .. Len(CBL[d1].S), j \in 1 .. Len(CBL[d2].S) :
         (CBL[d1].S[i] = CBL[d2].S[j]) => (d1 = d2 /\ i = j)

\* C13 happens when a best solution is brought back over sequences that a
\* relocation across layers had changed since it was stored
C13_Witness ==
  /\ Calls("performRandomLayoutOp", "applyBestCBLs")
  /\ Applied(Before, OP_MOVE_TUPLE) /\ Before.ops.die1 # Before.ops.die2
  /\ Last.ret
  /\ CBL # Last.obs.CBL

\* two rectangles overlap in area
OverlapInArea(a, b) ==
  a.llx < b.urx /\ b.llx < a.urx /\ a.lly < b.ury /\ b.lly < a.ury
\* no two placed blocks of die d overlap in area
NoOverlapOn(d) ==
  \A a, b \in Range(CBL[d].S) :
    (a # b /\ placed[a] /\ placed[b]) => ~OverlapInArea(bb[a], bb[b])

\* C14: decoding a layer with any tuple sequence from reset scratch state
\* places the blocks so that no two rectangles of the layer overlap in area.
C14_DecodeNoOverlap ==
  \A d \in Dies : NoOverlapOn(d)

\* C14 happens with a fully decoded layer of three blocks, one of them
\* placed by a tuple with a positive junction count above the bottom boundary
C14_Witness ==
  \E d \in Dies :
    /\ done[d] /\ CBLsize(CBL[d]) = 3
    /\ \E k \in 1 .. 3 : CBL[d].T[k] > 0 /\ bb[CBL[d].S[k]].lly > 0

\* C15: for a sequence in which every tuple has junction count 0, the
\* rectangles produced by a full decode pairwise do not overlap in area.
C15_DecodeNoOverlapNoJunctions ==
  \A d \in Dies :
    (done[d] /\ \A k \in 1 .. Len(CBL[d].T) : CBL[d].T[k] = 0) => NoOverlapOn(d)

\* C15 happens with a fully decoded layer of three blocks with junction
\* count 0 and both directions in use
C15_Witness ==
  \E d \in Dies :
    /\ done[d] /\ CBLsize(CBL[d]) = 3
    /\ \A k \in 1 .. 3 : CBL[d].T[k] = 0
    /\ Range(CBL[d].L) = Direction
    /\ \E b \in Range(CBL[d].S) : bb[b].llx > 0
    /\ \E b \in Range(CBL[d].S) : bb[b].lly > 0

\* a pass has ended: every die is done
PassEnded == \A d \in Dies : done[d]

\* C16: decoding the same unmodified sequence twice, with the placed flags,
\* the stacks, the cursor and the done flag reset in between, produces the
\* same rectangle for every block.
C16_DecodeTwice ==
  (hist # <<>> /\ hist[1].prev # <<>> /\ PassEnded) => bb = hist[1].prev

\* C16 happens with a second pass over blocks that the first pass had moved
\* away from the origin
C16_Witness ==
  /\ hist # <<>> /\ hist[1].prev # <<>> /\ PassEnded
  /\ \E b \in Blocks : hist[1].prev[b].llx > 0
  /\ \E b \in Blocks : hist[1].prev[b].lly > 0

\* the corners <<ll.x, ll.y, ur.x, ur.y>> of a rectangle
Corners(r) == <<r.llx, r.lly, r.urx, r.ury>>
\* die d holds the two tuples (A, HORIZONTAL, 0), (B, HORIZONTAL, 0) with A
\* of width 10 and height 4 and B of width 5 and height 4, and is decoded
TwoHorizontalTuples(d) ==
  /\ done[d]
  /\ CBLsize(CBL[d]) = 2
  /\ CBL[d].L = <<HORIZONTAL, HORIZONTAL>>
  /\ CBL[d].T = <<0, 0>>
  /\ bb[CBL[d].S[1]].w = 10 /\ bb[CBL[d].S[1]].h = 4
  /\ bb[CBL[d].S[2]].w = 5 /\ bb[CBL[d].S[2]].h = 4

\* C17: a layer holding (A, HORIZONTAL, 0) then (B, HORIZONTAL, 0), A of
\* width 10 and height 4, B of width 5 and height 4, decodes to
\* A = (0,0)-(10,4) and B = (10,0)-(15,4).
C17_TwoHorizontalTuples ==
  \A d \in Dies :
    TwoHorizontalTuples(d)
      => /\ Corners(bb[CBL[d].S[1]]) = <<0, 0, 10, 4>>
         /\ Corners(bb[CBL[d].S[2]]) = <<10, 0, 15, 4>>

\* C17 happens: the layer of the scenario is decoded
C17_Witness ==
  \E d \in Dies : TwoHorizontalTuples(d)

\* the last decoder call was placeCurrentBlock on die d
PlacedOn(d) ==
  hist # <<>> /\ hist[1].name = "placeCurrentBlock" /\ hist[1].pre.p = d

C19_DecodeEmptyLayer ==
  \A d \in Dies :
    (PlacedOn(d) /\ CBLempty(CBL[d]))
      => /\ done[d]
         /\ hist[1].ret = 0
         /\ bb = hist[1].pre.bb /\ placed = hist[1].pre.placed
         /\ Hi = hist[1].pre.Hi /\ Vi = hist[1].pre.Vi

\* C19 happens with an empty layer decoded after a layer that left blocks
\* on its stacks
C19_Witness ==
  \E d \in Dies :
    /\ PlacedOn(d) /\ CBLempty(CBL[d])
    /\ \E e \in Dies : Hi[e] # <<>> /\ Vi[e] # <<>>

\* C20: switchDie selects the first layer in declaration order that is not
\* done and returns true; it returns false exactly when every layer is
\* done, and then the selected layer is left unchanged.
C20_SwitchDie ==
  (hist # <<>> /\ hist[1].name = "switchDie")
    => LET pre == hist[1].pre
           unfinished == {d \in Dies : ~pre.done[d]}
       IN  /\ hist[1].ret = FALSE <=> unfinished = {}
           /\ unfinished # {}
                => /\ p \in unfinished
                   /\ \A d \in unfinished : p <= d
           /\ unfinished = {} => p = pre.p
           /\ done = pre.done

\* C20 happens with a switch from the first layer, done, to the second one
C20_Witness ==
  /\ hist # <<>> /\ hist[1].name = "switchDie"
  /\ hist[1].ret
  /\ p # hist[1].pre.p

\* every block of a lower die has a power density less than or equal to
\* that of every block of any higher die
PowerOrdered(cbl) ==
  \A d1, d2 \in Dies :
    d1 < d2 => \A a \in Range(cbl[d1].S), b \in Range(cbl[d2].S) :
                 BlockPowerDensity(a) <= BlockPowerDensity(b)

\* the last call applied a swap or a relocation
AppliedMoveOrSwap ==
  HasLast /\ (Applied(Last, OP_SWAP_BLOCKS) \/ Applied(Last, OP_MOVE_TUPLE))

\* C21: with power-aware block handling, a swap or relocation applied to
\* sequences in which every block of a lower layer has a power density less
\* than or equal to that of every block of any higher layer leaves sequences
\* with the same ordering, for every choice of operands the operator accepts.
C21_PowerOrderKept ==
  (AppliedMoveOrSwap /\ parameters.power_aware_block_handling
     /\ PowerOrdered(Last.obs.CBL))
    => PowerOrdered(CBL)

\* the same for the operators that read no block past the end of a sequence
PowerOrderKeptInBounds ==
  (AppliedMoveOrSwap /\ parameters.power_aware_block_handling
     /\ PowerOrdered(Last.obs.CBL) /\ ~Last.oob)
    => PowerOrdered(CBL)

\* C23: a freshly applied swap or relocation is rejected when the source
\* layer is empty, when for a swap either layer is empty, or when both
\* operands are on one layer holding fewer than two tuples; whenever a swap
\* or relocation within one layer is applied, the two tuple indices handed
\* to swapBlocks / moveTuples are different.
C23_ValidOperands ==
  AppliedMoveOrSwap
    => LET o == Last.ops
           pre == Last.obs.CBL
       IN  /\ ~CBLempty(pre[o.die1])
           /\ Last.op = OP_SWAP_BLOCKS => ~CBLempty(pre[o.die2])
           /\ o.die1 = o.die2 => (CBLsize(pre[o.die1]) >= 2 /\ o.tuple1 # o.tuple2)
           /\ o.tuple1 \in 0 .. (CBLsize(pre[o.die1]) - 1)

\* C23 happens with a swap within a layer of exactly two tuples, the other
\* layer being non-empty
C23_Witness ==
  /\ HasLast /\ Applied(Last, OP_SWAP_BLOCKS)
  /\ Last.ops.die1 = Last.ops.die2
  /\ CBLsize(CBL[Last.ops.die1]) = 2
  /\ CBL # Last.obs.CBL

\* C24: the junction-change operator sets the selected tuple's junction
\* count to one more or one less than before, and to exactly 1 when it was
\* 0; after any sequence of junction changes and reverts every junction
\* count is non-negative.
C24_JunctionChange ==
  /\ \A d \in Dies : \A k \in 1 .. Len(CBL[d].T) : CBL[d].T[k] >= 0
  /\ (HasLast /\ Applied(Last, OP_SWITCH_TUPLE_JUNCTS))
       => LET o == Last.ops
              old == At(Last.obs.CBL[o.die1].T, o.tuple1)
              new == At(CBL[o.die1].T, o.tuple1)
          IN  /\ new \in {old + 1, old - 1}
              /\ old = 0 => new = 1
              /\ o.juncts = old
              /\ CBL = switchTupleJunctions(Last.obs.CBL, o.die1, o.tuple1, new)

\* C24 happens with a junction count of 1 that the operator lowers to 0
C24_Witness ==
  /\ HasLast /\ Applied(Last, OP_SWITCH_TUPLE_JUNCTS)
  /\ Last.ops.juncts = 1
  /\ At(CBL[Last.ops.die1].T, Last.ops.tuple1) = 0

\* the last decoder call placed the block of a HORIZONTAL tuple on die d
PlacedHorizontally(d) ==
  /\ PlacedOn(d) /\ ~CBLempty(CBL[d])
  /\ At(CBL[d].L, hist[1].pre.pi[d]) = HORIZONTAL
  /\ ~hist[1].pre.placed[At(CBL[d].S, hist[1].pre.pi[d])]

\* C30: for a HORIZONTAL tuple with junction count j on an unplaced block,
\* decode pops min(j + 1, size) blocks from the horizontal stack; the
\* block's bottom coordinate is 0 if the stack is empty after popping and
\* otherwise the minimum bottom coordinate of the popped blocks; its left
\* coordinate is the maximum right edge of the popped blocks whose vertical
\* extent overlaps the block's new vertical extent, or 0 if none does; width
\* and height are unchanged.
C30_HorizontalPlacement ==
  \A d \in Dies :
    PlacedHorizontally(d)
      => LET pre == hist[1].pre
             cur == At(CBL[d].S, pre.pi[d])
             j == At(CBL[d].T, pre.pi[d])
             size == Len(pre.Hi[d])
             n == IF j + 1 <= size THEN j + 1 ELSE size
             popped == {pre.Hi[d][k] : k \in (size - n + 1) .. size}
             now == bb[cur]
             beside == {b \in popped : /\ pre.bb[b].lly < now.ury
                                       /\ now.lly < pre.bb[b].ury}
         IN  /\ Len(Hi[d]) >= size - n + 1
             /\ SubSeq(Hi[d], 1, size - n) = SubSeq(pre.Hi[d], 1, size - n)
             /\ Hi[d][size - n + 1] = cur
             /\ IF size - n = 0 THEN now.lly = 0
                ELSE /\ \E b \in popped : now.lly = pre.bb[b].lly
                     /\ \A b \in popped : now.lly <= pre.bb[b].lly
             /\ IF beside = {} THEN now.llx = 0
                ELSE /\ \E b \in beside : now.llx = pre.bb[b].urx
                     /\ \A b \in beside : now.llx >= pre.bb[b].urx
             /\ now.w = pre.bb[cur].w /\ now.h = pre.bb[cur].h
             /\ now.urx = now.llx + now.w /\ now.ury = now.lly + now.h

\* C30 happens with a block placed above the bottom boundary and right of
\* the left boundary, some blocks remaining on the stack below the popped ones
C30_Witness ==
  \E d \in Dies :
    /\ PlacedHorizontally(d)
    /\ Len(hist[1].pre.Hi[d]) >= 2
    /\ bb[At(CBL[d].S, hist[1].pre.pi[d])].lly > 0
    /\ bb[At(CBL[d].S, hist[1].pre.pi[d])].llx > 0

\* the last call was performPacking on die d along the horizontal axis
PackedHorizontally(d) ==
  hist # <<>> /\ hist[1].name = "performPacking"
    /\ hist[1].die = d /\ hist[1].dir = HORIZONTAL

\* before the last call die d held exactly the blocks a and b, a at x = 0
\* and b, of equal height and on the same rows, right of a with a gap
GapScenario(d, a, b) ==
  LET pre == hist[1].pre
  IN  /\ Range(CBL[d].S) = {a, b} /\ a # b
      /\ pre[a].llx = 0
      /\ pre[b].h = pre[a].h /\ pre[b].lly = pre[a].lly
      /\ pre[b].llx > pre[a].urx

\* C29: horizontal packing of a layer with one block at x = 0 and a second
\* block of equal height on the same rows, placed with a gap to the right
\* of the first, moves the second block so that its left edge equals the
\* first block's right edge, keeping its width, and leaves the first block
\* unchanged.
C29_PackingClosesGap ==
  \A d \in Dies : \A a, b \in Blocks :
    (PackedHorizontally(d) /\ GapScenario(d, a, b))
      => LET pre == hist[1].pre
         IN  /\ bb[a] = pre[a]
             /\ bb[b].llx = pre[a].urx
             /\ bb[b].w = pre[b].w /\ bb[b].urx = bb[b].llx + pre[b].w
             /\ bb[b].lly = pre[b].lly /\ bb[b].ury = pre[b].ury
             /\ bb[b].h = pre[b].h

\* C29 happens: the layer of the scenario is packed
C29_Witness ==
  \E d \in Dies : \E a, b \in Blocks :
    PackedHorizontally(d) /\ GapScenario(d, a, b) /\ bb[b] # hist[1].pre[b]

\* the last call applied, or tried to apply, a new operator
NewOp == HasLast /\ Last.name = "performRandomLayoutOp" /\ ~Last.revert

\* the tuple `tuple' of die `die' of the sequences cbl holds a
\* floorplacement block
carriesFloorplacement(cbl, die, tuple) ==
  /\ die >= 0 /\ tuple >= 0 /\ tuple < CBLsize(cbl[die])
  /\ BlockFloorplacement(At(cbl[die].S, tuple))

\* C22: with floorplacement handling, in SA phase one (SA_phase_two false),
\* a swap or relocation whose block at (die1, tuple1) or at (die2, tuple2)
\* is a floorplacement block returns false and changes no sequence, and no
\* floorplacement block changes its layer through a swap or a relocation.
C22_FloorplacementBan ==
  (NewOp /\ Last.op \in {OP_SWAP_BLOCKS, OP_MOVE_TUPLE}
     /\ parameters.floorplacement /\ ~last_call.SA_phase_two)
    => LET o == Last.ops
           pre == Last.obs.CBL
       IN  /\ (\/ carriesFloorplacement(pre, o.die1, o.tuple1)
               \/ carriesFloorplacement(pre, o.die2, o.tuple2))
                => (~Last.ret /\ CBL = pre)
           /\ \A b \in Blocks :
                BlockFloorplacement(b) => layer[b] = Last.obs.layer[b]

\* a swap across two layers, in SA phase one with floorplacement handling,
\* whose second block only is a floorplacement block, returned false
C22_Witness ==
  /\ NewOp /\ Last.op = OP_SWAP_BLOCKS /\ ~Last.ret
  /\ parameters.floorplacement /\ ~last_call.SA_phase_two
  /\ Last.ops.die1 # Last.ops.die2
  /\ ~carriesFloorplacement(Last.obs.CBL, Last.ops.die1, Last.ops.tuple1)
  /\ carriesFloorplacement(Last.obs.CBL, Last.ops.die2, Last.ops.tuple2)

\* the last call tried the guided selection before its operator
GuidedCall == NewOp /\ last_call.attempted

\* the positions of the failed requests in the list of alignment requests
FailedReqs == {r \in 1 .. Len(alignments) : ~alignments[r].fulfilled}

\* C25: the guided selection works on the first request, in list order,
\* whose flag fulfilled is false; the block at (die1, tuple1) it selects is
\* a block of that request and not RBOD (no request has RBOD for both of its
\* blocks); with no failed request the guided selection returns false.
C25_GuidedAnchor ==
  GuidedCall
    => IF FailedReqs = {}
       THEN ~last_call.swapping_failed_blocks /\ last_call.sel = NoOperands
       ELSE LET r == last_call.failed_req
                b1 == last_call.b1
                sel == last_call.sel
            IN  /\ r \in FailedReqs /\ \A q \in FailedReqs : r <= q
                /\ b1 \in {alignments[r].s_i, alignments[r].s_j} /\ b1 # RBOD
                /\ sel.die1 = Last.obs.layer[b1]
                /\ sel.tuple1 \in 0 .. (CBLsize(Last.obs.CBL[sel.die1]) - 1)
                /\ At(Last.obs.CBL[sel.die1].S, sel.tuple1) = b1

\* a guided selection with two failed requests, the first one with RBOD for
\* its block s_i, found blocks to swap
C25_Witness ==
  /\ GuidedCall /\ last_call.swapping_failed_blocks
  /\ FailedReqs = {1, 2}
  /\ alignments[1].s_i = RBOD
  /\ last_call.b1 = alignments[1].s_j

\* the failed request of the last guided selection requires intersecting
\* blocks: zero fixed offsets on both axes, or minimum overlaps on both axes
BothAxesRequest ==
  LET req == alignments[last_call.failed_req]
  IN  \/ /\ req.type_x = OFFSET /\ req.alignment_x = 0
         /\ req.type_y = OFFSET /\ req.alignment_y = 0
      \/ req.type_x = MIN /\ req.type_y = MIN

\* the blocks of the partner layer of the last guided selection that lie in
\* the failure direction of its anchor
InFailureDirection ==
  LET a == Last.obs.bb[last_call.b1]
      status == alignment[last_call.b1]
  IN  {b \in Range(Last.obs.CBL[last_call.sel.die2].S) :
         LET r == Last.obs.bb[b]
         IN  CASE status = FAIL_HOR_TOO_LEFT -> rectA_leftOf_rectB(a, r, TRUE)
               [] status = FAIL_HOR_TOO_RIGHT -> rectA_leftOf_rectB(r, a, TRUE)
               [] status = FAIL_VERT_TOO_LOW -> rectA_below_rectB(a, r, TRUE)
               [] status = FAIL_VERT_TOO_HIGH -> rectA_below_rectB(r, a, TRUE)
               [] OTHER -> FALSE}

\* block b is at least as near to the anchor of the last guided selection
\* as block c, in the failure direction of the anchor
AsNearAs(b, c) ==
  LET rb == Last.obs.bb[b]
      rc == Last.obs.bb[c]
      status == alignment[last_call.b1]
  IN  CASE status = FAIL_HOR_TOO_LEFT -> rb.llx <= rc.llx
        [] status = FAIL_HOR_TOO_RIGHT -> rb.urx >= rc.urx
        [] status = FAIL_VERT_TOO_LOW -> rb.lly <= rc.lly
        [] status = FAIL_VERT_TOO_HIGH -> rb.ury >= rc.ury
        [] OTHER -> FALSE

\* C26: for a failed request that asks neither for zero offsets on both axes
\* nor for minimum overlaps on both axes, the guided selection takes, among
\* the blocks of the partner layer, the nearest one in the failure direction
\* of the anchor: right of it with the smallest left edge (TOO_LEFT), left of
\* it with the largest right edge (TOO_RIGHT), above it with the smallest
\* bottom edge (TOO_LOW), below it with the largest top edge (TOO_HIGH); it
\* returns false when there is no such block or the status of the anchor is
\* none of the four.
C26_NearestNeighbour ==
  (GuidedCall /\ FailedReqs # {} /\ ~BothAxesRequest)
    => /\ last_call.swapping_failed_blocks <=> InFailureDirection # {}
       /\ last_call.swapping_failed_blocks
            => LET b2 == last_call.b1_neighbour
                   sel == last_call.sel
               IN  /\ b2 \in InFailureDirection
                   /\ \A c \in InFailureDirection : AsNearAs(b2, c)
                   /\ At(Last.obs.CBL[sel.die2].S, sel.tuple2) = b2

\* a guided selection for an anchor that is too far left took the nearer of
\* two blocks right of it
C26_Witness ==
  /\ GuidedCall /\ FailedReqs # {} /\ ~BothAxesRequest
  /\ last_call.swapping_failed_blocks
  /\ alignment[last_call.b1] = FAIL_HOR_TOO_LEFT
  /\ \E c \in InFailureDirection : ~AsNearAs(c, last_call.b1_neighbour)

\* the blocks of the failed request of the last guided selection are two
\* blocks of one layer
SameLayerRequest ==
  LET req == alignments[last_call.failed_req]
  IN  /\ req.s_i # RBOD /\ req.s_j # RBOD
      /\ Last.obs.layer[req.s_i] = Last.obs.layer[req.s_j]

\* C27: for a failed request with zero fixed offsets on both axes or minimum
\* overlaps on both axes, the partner that the guided selection takes is a
\* block whose rectangle intersects the anchor's and is not the other block
\* of the request; if the two blocks of the request are on the same layer,
\* the partner is on another layer than the anchor and, if there is only one
\* layer, the guided selection returns false.
C27_IntersectingPartner ==
  (GuidedCall /\ FailedReqs # {} /\ BothAxesRequest)
    => LET req == alignments[last_call.failed_req]
           b1 == last_call.b1
           b2 == last_call.b1_neighbour
           sel == last_call.sel
       IN  /\ last_call.swapping_failed_blocks
                => /\ b2 \in Range(Last.obs.CBL[sel.die2].S)
                   /\ At(Last.obs.CBL[sel.die2].S, sel.tuple2) = b2
                   /\ rectsIntersect(Last.obs.bb[b1], Last.obs.bb[b2])
                   /\ \A b \in {req.s_i, req.s_j} \ {b1} : b2 # b
           /\ (SameLayerRequest /\ last_call.swapping_failed_blocks)
                => Last.obs.layer[b2] # Last.obs.layer[b1]
           /\ (SameLayerRequest /\ parameters.layers = 1)
                => ~last_call.swapping_failed_blocks

\* a guided selection for a request of two blocks of one layer, with
\* minimum overlaps on both axes, took a block of the other layer
C27_Witness ==
  /\ GuidedCall /\ FailedReqs # {} /\ BothAxesRequest /\ SameLayerRequest
  /\ alignments[last_call.failed_req].type_x = MIN
  /\ last_call.swapping_failed_blocks
  /\ last_call.sel.die2 # last_call.sel.die1

\* C28: the guided selection is tried only in SA phase two with
\* opt_alignment; when it returns false, the same call of
\* performRandomLayoutOp resets all operands to -1 and applies one of the five
\* operators, which draws its operands; when it returns true, the operator
\* applied is a swap on the anchor that was selected.
C28_GuidedOrRandom ==
  NewOp
    => LET sel == last_call.sel
       IN  /\ last_call.attempted <=> (last_call.SA_phase_two /\ parameters.opt_alignment)
           /\ last_call.swapping_failed_blocks => last_call.attempted
           /\ ~last_call.swapping_failed_blocks
                => /\ last_call.ops = NoOperands
                   /\ Last.op \in OP_SWAP_BLOCKS .. OP_ROTATE_BLOCK__SHAPE_BLOCK
           /\ last_call.swapping_failed_blocks
                => /\ Last.op = OP_SWAP_BLOCKS
                   /\ last_call.ops = sel
                   /\ Last.ops.die1 = sel.die1 /\ Last.ops.tuple1 = sel.tuple1
                   /\ At(Last.obs.CBL[sel.die1].S, sel.tuple1) = last_call.b1
                   /\ Last.ret => At(CBL[sel.die1].S, sel.tuple1) # last_call.b1

\* a guided selection that had selected its anchor returned false, and the
\* call relocated a block of another layer than the anchor's
C28_Witness ==
  /\ GuidedCall /\ ~last_call.swapping_failed_blocks
  /\ last_call.sel.die1 >= 0 /\ last_call.sel.tuple1 >= 0
  /\ Last.op = OP_MOVE_TUPLE /\ Last.ret
  /\ Last.ops.die1 # last_call.sel.die1

\* the horizontal stack of die d before the last decoder call, without the
\* blocks that the call popped
StackRemainder(d) ==
  LET pre == hist[1].pre
      size == Len(pre.Hi[d])
      j == At(CBL[d].T, pre.pi[d])
      n == IF j + 1 <= size THEN j + 1 ELSE size
  IN  SubSeq(pre.Hi[d], 1, size - n)

\* the blocks that the last decoder call popped from the horizontal stack of
\* die d and that have no block to their right afterwards, in their order on
\* the stack, lowest first
StillUncovered(d) ==
  LET pre == hist[1].pre
      cur == At(CBL[d].S, pre.pi[d])
      uncovered(b) == ~rectA_leftOf_rectB(pre.bb[b], bb[cur], TRUE)
  IN  SelectSeq(SubSeq(pre.Hi[d], Len(StackRemainder(d)) + 1, Len(pre.Hi[d])),
                uncovered)

\* C31: after a HORIZONTAL tuple is placed, the horizontal stack holds, above
\* its untouched remainder, first the popped blocks that still have no block
\* to their right, in their order on the stack, and then the new block, which
\* is the top of the stack.
C31_NewBlockOnTop ==
  \A d \in Dies :
    PlacedHorizontally(d)
      => Hi[d] = StackRemainder(d) \o StillUncovered(d)
                   \o <<At(CBL[d].S, hist[1].pre.pi[d])>>

\* C31, as the code has it: after a HORIZONTAL tuple is placed, the
\* horizontal stack holds, above its untouched remainder, first the new block
\* and then the popped blocks that still have no block to their right, in
\* their order on the stack; the new block is the top of the stack only if no
\* popped block is kept.
C31_NewBlockBelowKept ==
  \A d \in Dies :
    PlacedHorizontally(d)
      => Hi[d] = StackRemainder(d) \o <<At(CBL[d].S, hist[1].pre.pi[d])>>
                   \o StillUncovered(d)

\* a HORIZONTAL placement kept a popped block on the stack
C31_Witness ==
  \E d \in Dies : PlacedHorizontally(d) /\ StillUncovered(d) # <<>>

\* the transpose of a rectangle: x and y, width and height exchanged
TransposedRect(r) ==
  [llx |-> r.lly, lly |-> r.llx, urx |-> r.ury, ury |-> r.urx,
   w |-> r.h, h |-> r.w, area |-> r.area]

\* the transpose of a decode state: every rectangle transposed, the two
\* stacks of every die exchanged
TransposedSt(st) ==
  [st EXCEPT !.bb = [b \in Blocks |-> TransposedRect(st.bb[b])],
             !.Hi = st.Vi, !.Vi = st.Hi]

\* the sequences with every direction flipped
FlippedCBL(cbl) ==
  [d \in Dies |->
     [cbl[d] EXCEPT !.L = [k \in 1 .. Len(cbl[d].L) |->
                             IF cbl[d].L[k] = HORIZONTAL THEN VERTICAL ELSE HORIZONTAL]]]

\* the decode of die d, from state st on, call by call until the die is done
RECURSIVE DecodedDie(_, _, _)
DecodedDie(st, cbl, d) ==
  IF st.done[d] THEN st ELSE DecodedDie(placeCurrentBlock(st, cbl, d), cbl, d)

\* C32: the VERTICAL case mirrors the HORIZONTAL case: every decode call on
\* the transposed state (every direction flipped, every block's rectangle
\* transposed, the stacks exchanged, same junction counts) yields the
\* transpose of what the call yields on the original state, and the decode
\* of a die from the transposed input yields the transposes of the rectangles
\* and the exchanged stacks of the decode from the original input.
C32_VerticalMirrorsHorizontal ==
  \A d \in Dies :
    PlacedOn(d)
      => /\ placeCurrentBlock(TransposedSt(hist[1].pre), FlippedCBL(CBL), d)
              = TransposedSt(DecodeSt)
         /\ done[d]
              => LET input == reset(TransposedSt(DecodeSt), CBL, d)
                     mirror == DecodedDie(input, FlippedCBL(CBL), d)
                 IN  /\ \A b \in Range(CBL[d].S) : mirror.bb[b] = TransposedRect(bb[b])
                     /\ mirror.Hi[d] = Vi[d] /\ mirror.Vi[d] = Hi[d]

\* the decode of a die with tuples of both directions ended, with a block
\* that is not a square placed right of and above other blocks
C32_Witness ==
  \E d \in Dies :
    /\ PlacedOn(d) /\ done[d]
    /\ {HORIZONTAL, VERTICAL} \subseteq Range(CBL[d].L)
    /\ \E b \in Range(CBL[d].S) : bb[b].w # bb[b].h /\ bb[b].llx > 0 /\ bb[b].lly > 0

\* C33: when placeCurrentBlock is called and the block of the tuple at the
\* cursor is marked placed already, the call returns that block and leaves
\* the block's rectangle, both stacks, the cursor and the done flag (and all
\* else that the decoder writes) unchanged.
C33_PlacedBlockUntouched ==
  \A d \in Dies :
    (PlacedOn(d) /\ ~CBLempty(CBL[d])
       /\ hist[1].pre.placed[At(CBL[d].S, hist[1].pre.pi[d])])
      => /\ hist[1].ret = At(CBL[d].S, hist[1].pre.pi[d])
         /\ DecodeSt = hist[1].pre

\* after it placed a block of the die, the decoder was called on a tuple
\* whose block was placed before
C33_Witness ==
  \E d \in Dies :
    /\ PlacedOn(d) /\ ~CBLempty(CBL[d])
    /\ hist[1].pre.placed[At(CBL[d].S, hist[1].pre.pi[d])]
    /\ hist[1].pre.pi[d] > 0
    /\ bb[At(CBL[d].S, hist[1].pre.pi[d])].llx > 0

\* the rectangle that every block has when the backup of InitTransaction is
\* taken: its registered shape at the origin
RectAtBackup(b) ==
  Rect(0, 0, BlockWidth(b), BlockHeight(b), BlockWidth(b) * BlockHeight(b))

\* the die whose backup sequence lists block b
DieAtBackup(b) == CHOOSE d \in Dies : \E k \in 1 .. Len(CBLbackup[d].S) : CBLbackup[d].S[k] = b

\* C34: after backupCBLs(), operator applications (kept or reverted) and
\* full decodes, restoreCBLs() leaves every layer's sequence, every block's
\* layer field and every block's rectangle as they were at backupCBLs().
C34_RestoreUndoesMutations ==
  (HasLast /\ Last.name = "restoreCBLs")
    => /\ CBL = CBLbackup
       /\ \A b \in Blocks : layer[b] = DieAtBackup(b) /\ bb[b] = RectAtBackup(b)

\* C35: in every state reached by swaps, relocations, restore and applyBest
\* from a consistent initial assignment, every listed block's layer field is
\* the id of the one layer whose current sequence contains the block.
C35_LayerFieldMatchesSequence ==
  \A b \in BlocksOf(CBL) :
    /\ Cardinality({d \in Dies : b \in Range(CBL[d].S)}) = 1
    /\ \A d \in Dies : b \in Range(CBL[d].S) => layer[b] = d

\* C35 happens when a stored best solution is applied after a swap across
\* layers: the layer fields of the two swapped blocks are set back
C35_Witness ==
  /\ Calls("performRandomLayoutOp", "applyBestCBLs")
  /\ Applied(Before, OP_SWAP_BLOCKS) /\ Before.ops.die1 # Before.ops.die2
  /\ Last.ret
  /\ Cardinality({b \in Blocks : layer[b] # Last.obs.layer[b]}) = 2

\* C36: applyBestCBLs() replaces each layer's current sequence by that
\* layer's best snapshot even when the snapshot is empty; after a call that
\* returns false every layer's current sequence is empty.
C36_ApplyBestReplaces ==
  (HasLast /\ Last.name = "applyBestCBLs")
    => /\ \A d \in Dies : CBL[d] = CBLbest[d]
       /\ ~Last.ret => \A d \in Dies : CBLempty(CBL[d])

\* C36 happens when applyBestCBLs() fails on sequences that held all blocks:
\* the failed call has cleared them
C36_Witness ==
  /\ HasLast /\ Last.name = "applyBestCBLs" /\ ~Last.ret
  /\ BlocksOf(Last.obs.CBL) = Blocks
  /\ BlocksOf(CBL) = {}

\* C37: every (layer, tuple index) that a swap or relocation, not reverting,
\* dereferences for its power-density or floorplacement check or passes to
\* swapBlocks/moveTuples lies within that layer's current sequence (the
\* insertion index of a relocation is at most the destination's length),
\* also when the destination layer of a relocation is empty.
C37_OperandsInBounds ==
  (/\ HasLast /\ Last.name = "performRandomLayoutOp" /\ ~Last.revert
   /\ Last.op \in {OP_SWAP_BLOCKS, OP_MOVE_TUPLE})
    => /\ ~Last.oob
       /\ Last.ret =>
            /\ Last.ops.tuple1 < CBLsize(Last.obs.CBL[Last.ops.die1])
            /\ Last.ops.tuple2 <= CBLsize(Last.obs.CBL[Last.ops.die2])
            /\ Last.op = OP_SWAP_BLOCKS
                 => Last.ops.tuple2 < CBLsize(Last.obs.CBL[Last.ops.die2])

\* C38: whenever the guided selection reports success, the partner tuple it
\* returns designates a block other than the anchor, and the swap that
\* follows exchanges the anchor with that partner, not with a tuple drawn
\* anew at random.
C38_PartnerIsNotAnchor ==
  (GuidedCall /\ last_call.swapping_failed_blocks)
    => /\ last_call.b1_neighbour # last_call.b1
       /\ Last.ret => /\ Last.op = OP_SWAP_BLOCKS
                       /\ Last.ops.tuple2 = last_call.sel.tuple2

\* no two blocks of die d overlap in area, under the rectangles rects
NoOverlapAmong(rects, d) ==
  \A a, b \in Range(CBL[d].S) : a # b => ~OverlapInArea(rects[a], rects[b])

\* C39: performPacking along either axis on a layer whose rectangles
\* pairwise do not overlap yields rectangles that pairwise do not overlap,
\* also when several left neighbours with different right edges cover the
\* same part of a block's orthogonal extent.
C39_PackingKeepsNonOverlap ==
  (hist # <<>> /\ hist[1].name = "performPacking"
     /\ NoOverlapAmong(hist[1].pre, hist[1].die))
    => NoOverlapAmong(bb, hist[1].die)

\* C40: performPacking along an axis never increases a block's coordinate
\* on that axis, never changes a block already at coordinate 0, and leaves
\* every block's width, height and orthogonal-axis coordinates and the
\* layer's sequence unchanged; on a layer with an empty sequence it changes
\* nothing.
C40_PackingFrame ==
  [][LET call == hist'[1]
         horizontal == call.dir = HORIZONTAL
     IN  /\ CBL' = CBL
         /\ CBLempty(CBL[call.die]) => bb' = bb
         /\ \A b \in DOMAIN bb :
              LET old == bb[b]
                  new == bb'[b]
              IN  /\ new.w = old.w /\ new.h = old.h
                  /\ new.urx - new.llx = old.w /\ new.ury - new.lly = old.h
                  /\ IF horizontal
                     THEN /\ new.llx <= old.llx
                          /\ new.lly = old.lly /\ new.ury = old.ury
                          /\ old.llx = 0 => new = old
                     ELSE /\ new.lly <= old.lly
                          /\ new.llx = old.llx /\ new.urx = old.urx
                          /\ old.lly = 0 => new = old]_vars

\* C40 happens: a vertical packing moved a block down while another block
\* of the layer stayed at the bottom boundary
C40_Witness ==
  /\ hist # <<>> /\ hist[1].name = "performPacking" /\ hist[1].dir = VERTICAL
  /\ \E a, b \in Range(CBL[hist[1].die].S) :
       /\ hist[1].pre[a].lly = 0 /\ bb[a] = hist[1].pre[a]
       /\ bb[b].lly < hist[1].pre[b].lly

====
